---- MODULE Spec2Model ----
(***************************************************************************)
(* Wave Viewer: the response-spectrum engine (js/responseSpectrum.js), its *)
(* worker (js/responseSpectrumWorker.js), the analysis driver              *)
(* (js/main.js), the integrator and unit converters (js/analysis.js) and   *)
(* the spectrum module (js/fft.js).                                        *)
(*                                                                         *)
(* Numbers.  The program computes in IEEE-754 doubles.  Here a number is a *)
(* fixed-point integer: the integer x stands for x / Scale, and every      *)
(* product and quotient is rounded to the nearest representable value, as  *)
(* a floating-point operation is.  Rounding is therefore part of the       *)
(* model: a product followed by a quotient need not give the operand back. *)
(***************************************************************************)
EXTENDS Integers, Sequences, FiniteSets, TLC

VARIABLES
    nm,         \* runs of _computeSinglePeriodResponse
    rs,         \* one call of ResponseSpectrum.compute and its worker path
    pg,         \* one call of generateLogPeriods
    core,       \* calls of the operations of js/analysis.js and js/fft.js
    state,      \* main.js: the state object
    elements,   \* main.js: the form controls the analysis reads and writes
    runs,       \* main.js: the invocations of runAnalysis
    workers,    \* the Worker objects computeResponseSpectrumAsync created
    hasWorker   \* whether the page has a Worker constructor

appVars == <<state, elements, runs, workers, hasWorker>>
vars == <<nm, rs, pg, core, appVars>>

(***************************************************************************)
(* Bounds of the model.                                                    *)
(***************************************************************************)
MaxLen == 3
MaxAmp == 1

(***************************************************************************)
(* Fixed-point arithmetic.                                                 *)
(***************************************************************************)
Scale == 10 * 10 * 10
One == Scale

Abs(x) == IF x < 0 THEN -x ELSE x

\* sample values: the whole numbers -MaxAmp .. MaxAmp
SampleValues == {v * One : v \in -MaxAmp..MaxAmp}

\* the non-empty records of at most MaxLen samples
Records == UNION {[1..n -> SampleValues] : n \in 1..MaxLen}

\* the value of a machine's variable in a specification that does not run it
NMOff == [pc |-> "off"]
RSOff == [pc |-> "off"]
PGOff == [pc |-> "off"]
CoreOff == [pc |-> "off"]
AppOff ==
    /\ state = <<>> /\ elements = <<>> /\ runs = <<>> /\ workers = <<>>
    /\ hasWorker = FALSE

\* a / b rounded to the nearest integer, halves away from zero (b # 0)
RoundDiv(a, b) ==
    LET q == (2 * Abs(a) + Abs(b)) \div (2 * Abs(b))
    IN  IF (a < 0) # (b < 0) THEN -q ELSE q

\* x * y on fixed-point numbers, rounded
FMul(x, y) ==
    LET ax == Abs(x)
        ay == Abs(y)
        m  == (ax \div Scale) * ay + RoundDiv((ax % Scale) * ay, Scale)
    IN  IF (x < 0) # (y < 0) THEN -m ELSE m

\* x / y on fixed-point numbers, rounded (y # 0)
FDiv(x, y) == RoundDiv(x * Scale, y)

\* Math.pow(base, n) for an integer exponent n >= 0, by repeated squaring;
\* a power above cap is left as it is (this keeps the search of MathRoot
\* inside the integers)
RECURSIVE PowInt(_, _, _)
PowInt(base, n, cap) ==
    IF n = 0 THEN One
    ELSE IF n % 2 = 1
    THEN LET p == PowInt(base, n - 1, cap)
         IN  IF p > cap THEN p ELSE FMul(p, base)
    ELSE LET h == PowInt(base, n \div 2, cap)
         IN  IF h > cap THEN h ELSE FMul(h, h)

\* Math.pow(base, n) for powers up to a thousand, the largest the model
\* multiplies without leaving TLC's integers
MathPow(base, n) == PowInt(base, n, Scale * Scale)

\* the largest r in lo..hi with PowInt(r, n) <= x  (PowInt(lo, n) <= x)
RECURSIVE RootSearch(_, _, _, _)
RootSearch(x, n, lo, hi) ==
    IF lo >= hi THEN lo
    ELSE LET mid == (lo + hi + 1) \div 2
         IN  IF PowInt(mid, n, x) <= x
             THEN RootSearch(x, n, mid, hi)
             ELSE RootSearch(x, n, lo, mid - 1)

\* Math.pow(x, 1 / n) for x >= 1 and an integer n >= 1: the representable
\* number whose n-th power is nearest to x
MathRoot(x, n) ==
    LET r    == RootSearch(x, n, One, x)
        below == x - PowInt(r, n, x)
        above == PowInt(r + 1, n, 2 * x) - x
    IN  IF above < below THEN r + 1 ELSE r

(***************************************************************************)
(* ResponseSpectrum._computeSinglePeriodResponse: the Newmark-beta solver  *)
(* of one single-degree-of-freedom oscillator (beta = 1/4, gamma = 1/2).   *)
(***************************************************************************)
PI == 3142
beta == 250
gamma == 500

\* lines 147-160, given omega of line 146
CoefficientsFor(dt, damping, omega) ==
    [dt |-> dt,
     dampingCoeff |-> FMul(FMul(2 * One, damping), omega),
     a0 |-> FDiv(One, FMul(FMul(beta, dt), dt)),
     a1 |-> FDiv(gamma, FMul(beta, dt)),
     a2 |-> FDiv(One, FMul(beta, dt)),
     a3 |-> FDiv(One, FMul(2 * One, beta)) - One,
     a4 |-> FDiv(gamma, beta) - One,
     a5 |-> FMul(dt, FDiv(gamma, FMul(2 * One, beta)) - One),
     stiffness |-> FMul(omega, omega)]

\* line 160: kHat = stiffness + a0 + (a1 * dampingCoeff)
WithKHat(c) ==
    [dt |-> c.dt, dampingCoeff |-> c.dampingCoeff,
     a0 |-> c.a0, a1 |-> c.a1, a2 |-> c.a2, a3 |-> c.a3, a4 |-> c.a4,
     a5 |-> c.a5,
     kHat |-> c.stiffness + c.a0 + FMul(c.a1, c.dampingCoeff)]

\* lines 146-160: the constants of one (dt, period, damping) solve
NewmarkCoefficients(dt, period, damping) ==
    WithKHat(CoefficientsFor(dt, damping, FDiv(FMul(2 * One, PI), period)))

\* lines 162-168: the solver's variables before the loop
NewmarkInitial(groundAcceleration) ==
    [displacement |-> 0, velocity |-> 0,
     relAcceleration |-> -groundAcceleration[1],
     maxSd |-> 0, maxSv |-> 0, maxSa |-> 0]

\* the comparison turned round: the smaller value is kept
UpdateMaxKeepsSmaller(max, abs) == IF abs < max THEN abs ELSE max

\* lines 195-203: if (abs > max) max = abs
UpdateMax(max, abs) == IF abs > max THEN abs ELSE max

\* lines 171-177: pHat; groundNext is groundAcceleration[i + 1] of the source
EffectiveLoad(c, s, groundNext) ==
    (-groundNext)
    + FMul(c.a0, s.displacement) + FMul(c.a2, s.velocity)
    + FMul(c.a3, s.relAcceleration)
    + FMul(c.dampingCoeff,
           FMul(c.a1, s.displacement) + FMul(c.a4, s.velocity)
           + FMul(c.a5, s.relAcceleration))

\* lines 180-182: relAccelerationNext
NextRelAcceleration(c, s, displacementNext) ==
    FMul(c.a0, displacementNext - s.displacement)
    - FMul(c.a2, s.velocity)
    - FMul(c.a3, s.relAcceleration)

\* lines 183-185: velocityNext
NextVelocity(c, s, relAccelerationNext) ==
    s.velocity + FMul(c.dt, FMul(One - gamma, s.relAcceleration)
                            + FMul(gamma, relAccelerationNext))

\* lines 187-203: the new response and the three running maxima
Advance(s, groundNext, displacementNext, velocityNext, relAccelerationNext) ==
    [displacement |-> displacementNext, velocity |-> velocityNext,
     relAcceleration |-> relAccelerationNext,
     maxSd |-> UpdateMax(s.maxSd, Abs(displacementNext)),
     maxSv |-> UpdateMax(s.maxSv, Abs(velocityNext)),
     maxSa |-> UpdateMax(s.maxSa, Abs(relAccelerationNext + groundNext))]

AdvanceFromAcceleration(c, s, groundNext, displacementNext, relAccelerationNext) ==
    Advance(s, groundNext, displacementNext,
            NextVelocity(c, s, relAccelerationNext), relAccelerationNext)

AdvanceFromDisplacement(c, s, groundNext, displacementNext) ==
    AdvanceFromAcceleration(c, s, groundNext, displacementNext,
                            NextRelAcceleration(c, s, displacementNext))

\* lines 171-203: one iteration of the loop
NewmarkStep(c, s, groundNext) ==
    AdvanceFromDisplacement(c, s, groundNext,
                            FDiv(EffectiveLoad(c, s, groundNext), c.kHat))

\* the solver's variables after k iterations of the loop (0 <= k <= n - 1)
RECURSIVE NewmarkAfter(_, _, _)
NewmarkAfter(c, groundAcceleration, k) ==
    IF k = 0 THEN NewmarkInitial(groundAcceleration)
    ELSE NewmarkStep(c, NewmarkAfter(c, groundAcceleration, k - 1),
                     groundAcceleration[k + 1])

\* lines 145-207: { sa, sv, sd } of one (period, damping) pair
Maxima(s) == [sa |-> s.maxSa, sv |-> s.maxSv, sd |-> s.maxSd]

computeSinglePeriodResponse(groundAcceleration, dt, period, damping) ==
    Maxima(NewmarkAfter(NewmarkCoefficients(dt, period, damping),
                        groundAcceleration, Len(groundAcceleration) - 1))

(***************************************************************************)
(* ResponseSpectrum: defaultConfig, generateLogPeriods,                    *)
(* _convertAccelerationToMps2, _computeForDamping and compute.             *)
(*                                                                         *)
(* A call either returns a value or throws an Error with a message:        *)
(* [threw, error, value].  An argument that may be undefined is a sequence *)
(* of length 0 (undefined) or 1.  periodDivisions is a whole number, not a *)
(* fixed-point one.                                                        *)
(***************************************************************************)
Return(v) == [threw |-> FALSE, error |-> "", value |-> v]
Throw(msg) == [threw |-> TRUE, error |-> msg, value |-> <<>>]

MsgTooFewSamples == "response spectrum needs at least 2 acceleration samples"
MsgBadSamplingRate == "invalid sampling rate"
MsgBadPeriodRange == "invalid period range"

UnitMps2 == "m/s^2"
UnitGal == "gal"
UnitG == "g"
UnitCmS2 == "cm/s2"

StandardGravity == 9807

\* lines 9-14
defaultConfig ==
    [periodMin |-> 20, periodMax |-> 10 * One, periodDivisions |-> 200,
     dampings |-> <<20, 30, 50>>]

\* the spread the other way round: the defaults win over config
MergeOptionsDefaultsLast(defaults, config) ==
    [k \in DOMAIN defaults \cup DOMAIN config |->
        IF k \in DOMAIN defaults THEN defaults[k] ELSE config[k]]

\* line 32: { ...this.defaultConfig, ...config }
MergeOptions(defaults, config) ==
    [k \in DOMAIN defaults \cup DOMAIN config |->
        IF k \in DOMAIN config THEN config[k] ELSE defaults[k]]

\* line 75: the test that makes generateLogPeriods throw
BadPeriodRange(periodMin, periodMax, divisions) ==
    periodMin <= 0 \/ periodMax <= periodMin \/ divisions < 1

\* line 80: ratio = Math.pow(periodMax / periodMin, 1 / divisions)
PeriodRatio(periodMin, periodMax, divisions) ==
    MathRoot(FDiv(periodMax, periodMin), divisions)

\* the first period taken one step up the grid
PeriodAtSkippingFirst(periodMin, ratio, i) ==
    FMul(periodMin, MathPow(ratio, IF i = 0 THEN 1 ELSE i))

\* line 83: periods[i] = periodMin * Math.pow(ratio, i)
PeriodAt(periodMin, ratio, i) == FMul(periodMin, MathPow(ratio, i))

\* lines 74-87
generateLogPeriods(periodMin, periodMax, divisions) ==
    IF BadPeriodRange(periodMin, periodMax, divisions)
    THEN Throw(MsgBadPeriodRange)
    ELSE Return([i \in 1..(divisions + 1) |->
                    PeriodAt(periodMin,
                             PeriodRatio(periodMin, periodMax, divisions),
                             i - 1)])

\* lines 95-103
RSConvertAccelerationToMps2(acceleration, unit) ==
    IF unit = UnitGal
    THEN [i \in 1..Len(acceleration) |-> FDiv(acceleration[i], 100 * One)]
    ELSE IF unit = UnitG
    THEN [i \in 1..Len(acceleration) |-> FMul(acceleration[i], StandardGravity)]
    ELSE acceleration

\* lines 113-135
SeriesOf(response) ==
    [acceleration |-> [i \in DOMAIN response |-> response[i].sa],
     velocity     |-> [i \in DOMAIN response |-> response[i].sv],
     displacement |-> [i \in DOMAIN response |-> response[i].sd]]

computeForDamping(groundAcceleration, dt, periods, damping) ==
    SeriesOf([i \in 1..Len(periods) |->
                computeSinglePeriodResponse(groundAcceleration, dt,
                                            periods[i], damping)])

\* the length test off by one: a single sample passes
CheckArgumentsOneSample(acceleration, samplingRate) ==
    IF ~acceleration.isArray \/ Len(acceleration.items) < 1
    THEN MsgTooFewSamples
    ELSE IF samplingRate = <<>> \/ samplingRate[1] = 0 \/ samplingRate[1] <= 0
    THEN MsgBadSamplingRate
    ELSE ""

\* lines 25-30: the two argument checks; "" when both pass
CheckArguments(acceleration, samplingRate) ==
    IF ~acceleration.isArray \/ Len(acceleration.items) < 2
    THEN MsgTooFewSamples
    ELSE IF samplingRate = <<>> \/ samplingRate[1] = 0 \/ samplingRate[1] <= 0
    THEN MsgBadSamplingRate
    ELSE ""

\* line 24: the default values of the parameters unit and config
UnitOrDefault(unit) == IF unit = <<>> THEN UnitMps2 ELSE unit[1]
ConfigOrDefault(config) == IF config = <<>> THEN <<>> ELSE config[1]

\* the series put in front instead of pushed at the end
PushSpectrumFront(spectra, spectrum) ==
    [acceleration |-> <<spectrum.acceleration>> \o spectra.acceleration,
     velocity     |-> <<spectrum.velocity>> \o spectra.velocity,
     displacement |-> <<spectrum.displacement>> \o spectra.displacement]

\* lines 46-56, the k-th iteration of dampings.forEach: the three spectra
\* with the series of dampings[k] pushed
PushSpectrum(spectra, spectrum) ==
    [acceleration |-> Append(spectra.acceleration, spectrum.acceleration),
     velocity     |-> Append(spectra.velocity, spectrum.velocity),
     displacement |-> Append(spectra.displacement, spectrum.displacement)]

RECURSIVE SpectraAfter(_, _, _, _, _)
SpectraAfter(groundAcceleration, dt, periods, dampings, k) ==
    IF k = 0
    THEN [acceleration |-> <<>>, velocity |-> <<>>, displacement |-> <<>>]
    ELSE PushSpectrum(
             SpectraAfter(groundAcceleration, dt, periods, dampings, k - 1),
             computeForDamping(groundAcceleration, dt, periods, dampings[k]))

\* lines 58-64
ResultOf(periods, dampings, spectra) ==
    [periods |-> periods, dampings |-> dampings,
     acceleration |-> spectra.acceleration,
     velocity |-> spectra.velocity,
     displacement |-> spectra.displacement]

\* lines 38-64, given the period grid of lines 33-37
computeWithPeriods(acceleration, samplingRate, unit, options, periods) ==
    IF periods.threw THEN periods
    ELSE Return(ResultOf(periods.value, options.dampings,
             SpectraAfter(
                 RSConvertAccelerationToMps2(acceleration.items,
                                             UnitOrDefault(unit)),
                 FDiv(One, samplingRate[1]), periods.value,
                 options.dampings, Len(options.dampings))))

\* lines 33-64, given the options of line 32
computeWithOptions(acceleration, samplingRate, unit, options) ==
    computeWithPeriods(acceleration, samplingRate, unit, options,
        generateLogPeriods(options.periodMin, options.periodMax,
                           options.periodDivisions))

\* lines 24-65
compute(acceleration, samplingRate, unit, config) ==
    IF CheckArguments(acceleration, samplingRate) # ""
    THEN Throw(CheckArguments(acceleration, samplingRate))
    ELSE computeWithOptions(acceleration, samplingRate, unit,
             MergeOptions(defaultConfig, ConfigOrDefault(config)))

(***************************************************************************)
(* js/responseSpectrumWorker.js and the two ends of the worker channel in  *)
(* computeResponseSpectrumAsync (js/main.js).                              *)
(***************************************************************************)
MsgWorkerFailed == "response spectrum computation failed"
MsgWorkerError == "an error occurred in the response spectrum worker"

\* main.js lines 254-259: worker.postMessage({ acceleration, samplingRate,
\* unit, config }); the worker receives a structured clone, equal in value
PostedMessage(acceleration, samplingRate, unit, config) ==
    [acceleration |-> acceleration, samplingRate |-> samplingRate,
     unit |-> unit, config |-> config]

\* responseSpectrumWorker.js lines 16-21: the message the worker posts for
\* what compute did
PostedReply(result) ==
    IF result.threw
    THEN [ok |-> FALSE, result |-> <<>>, error |-> result.error]
    ELSE [ok |-> TRUE, result |-> result.value, error |-> ""]

\* the unit of the message not passed on to compute
WorkerOnMessageDroppingUnit(event) ==
    PostedReply(compute(event.data.acceleration, event.data.samplingRate,
                        <<>>, event.data.config))

\* responseSpectrumWorker.js lines 7-23: self.onmessage
WorkerOnMessage(event) ==
    PostedReply(compute(event.data.acceleration, event.data.samplingRate,
                        event.data.unit, event.data.config))

\* main.js lines 239-243: how worker.onmessage settles the promise
SettleOnMessage(event) ==
    IF event.data.ok
    THEN Return(event.data.result)
    ELSE Throw(IF event.data.error # "" THEN event.data.error
               ELSE MsgWorkerFailed)

(***************************************************************************)
(* ResponseSpectrum.compute run phase by phase, beside the worker path     *)
(* for the same four arguments (SpecRS).                                   *)
(***************************************************************************)
MaxDivisions == 3

NotAnArray == [isArray |-> FALSE, items |-> <<>>]
ArrayOf(items) == [isArray |-> TRUE, items |-> items]

\* first arguments: something that is no array, and every array of at most
\* MaxLen samples
RSAccelerations == {NotAnArray} \cup {ArrayOf(r) : r \in Records \cup {<<>>}}
RSFewAccelerations ==
    {ArrayOf(<<One>>), ArrayOf(<<One, -One>>), ArrayOf(<<0, One, -One>>)}

\* second arguments: undefined, 0, -1, 1 and 2 Hz
RSSamplingRates == {<<>>, <<0>>, <<-One>>, <<One>>, <<2 * One>>}

\* third arguments: undefined and the unit strings
RSUnits == {<<>>, <<UnitMps2>>, <<UnitGal>>, <<UnitG>>, <<UnitCmS2>>}

\* config objects that set periodDivisions, with any of the other fields
RSPeriodMins == {0, -One, One}
RSPeriodMaxs == {One, 2 * One}
RSDampingLists == {<<>>, <<50, 20>>}
RSDivisions == -1..MaxDivisions

Restrict(f, keys) == [k \in keys |-> f[k]]

RSSmallConfigs ==
    {Restrict([periodMin |-> a, periodMax |-> b, periodDivisions |-> n,
               dampings |-> h], keys \cup {"periodDivisions"}) :
        a \in RSPeriodMins, b \in RSPeriodMaxs, n \in RSDivisions,
        h \in RSDampingLists,
        keys \in SUBSET {"periodMin", "periodMax", "dampings"}}

\* config arguments that leave periodDivisions to the default: undefined,
\* {}, and objects that set other fields
RSDefaultingConfigs ==
    {<<>>, << <<>> >>, <<[dampings |-> <<50, 20>>]>>,
     <<[periodMax |-> 2 * One]>>,
     <<[periodMin |-> One, periodMax |-> One]>>}

\* the arguments of SpecRS: every first argument with a few of the others,
\* every config with a few of the others, every second and third argument
\* with a few of the others
RSArguments ==
    ({PostedMessage(a, sr, u, <<c>>) :
        a \in RSAccelerations, sr \in {<<One>>, <<>>}, u \in {<<UnitGal>>},
        c \in {[periodDivisions |-> 2, dampings |-> <<50, 20>>],
               [periodMax |-> 10, periodDivisions |-> 2]}})
    \cup
    ({PostedMessage(a, sr, u, <<c>>) :
        a \in {ArrayOf(<<One, -One>>)}, sr \in {<<One>>, <<0>>},
        u \in {<<>>, <<UnitG>>}, c \in RSSmallConfigs})
    \cup
    ({PostedMessage(a, sr, u, <<c>>) :
        a \in RSFewAccelerations, sr \in RSSamplingRates, u \in RSUnits,
        c \in {[periodMin |-> 500, periodDivisions |-> MaxDivisions]}})

\* the arguments of SpecRSDefault: config undefined, {} or partial
RSDefaultArguments ==
    ({PostedMessage(a, <<2 * One>>, u, c) :
        a \in RSFewAccelerations, u \in {<<UnitG>>}, c \in RSDefaultingConfigs})
    \cup
    ({PostedMessage(ArrayOf(<<One, -One>>), sr, u, c) :
        sr \in {<<One>>, <<0>>}, u \in {<<>>, <<UnitGal>>},
        c \in {<<>>, <<[periodDivisions |-> 2]>>,
               <<[periodMin |-> 500, periodDivisions |-> 1]>>,
               <<[periodDivisions |-> 1, dampings |-> <<50>>]>>}})

NoSpectra == [acceleration |-> <<>>, velocity |-> <<>>, displacement |-> <<>>]

\* compute entered with arguments a; w is where the worker path stands
RSEntered(a, w) ==
    [pc |-> "compute", args |-> a,
     options |-> <<>>, periods |-> <<>>, dampings |-> <<>>, dt |-> 0,
     groundAcceleration |-> <<>>, converted |-> FALSE,
     spectra |-> NoSpectra, solves |-> 0, outcome |-> <<>>,
     worker |-> [pc |-> w, message |-> a, reply |-> <<>>, settled |-> <<>>]]

RSInit ==
    /\ rs \in {RSEntered(a, "posted") : a \in RSArguments}
    /\ nm = NMOff /\ pg = PGOff /\ core = CoreOff /\ AppOff

RSDefaultInit ==
    /\ rs \in {RSEntered(a, "off") : a \in RSDefaultArguments}
    /\ nm = NMOff /\ pg = PGOff /\ core = CoreOff /\ AppOff

\* lines 25-30
RSCheckArguments ==
    /\ rs.pc = "compute"
    /\ LET bad == CheckArguments(rs.args.acceleration, rs.args.samplingRate)
       IN  rs' = IF bad # ""
                 THEN [rs EXCEPT !.pc = "thrown", !.outcome = Throw(bad)]
                 ELSE [rs EXCEPT !.pc = "checked"]
    /\ UNCHANGED <<nm, pg, core, appVars>>

\* lines 32-37
RSGeneratePeriods ==
    /\ rs.pc = "checked"
    /\ LET options == MergeOptions(defaultConfig,
                                   ConfigOrDefault(rs.args.config))
           periods == generateLogPeriods(options.periodMin, options.periodMax,
                                         options.periodDivisions)
       IN  rs' = IF periods.threw
                 THEN [rs EXCEPT !.pc = "thrown", !.options = options,
                                 !.outcome = periods]
                 ELSE [rs EXCEPT !.pc = "periods", !.options = options,
                                 !.periods = periods.value]
    /\ UNCHANGED <<nm, pg, core, appVars>>

\* lines 38-44
RSConvert ==
    /\ rs.pc = "periods"
    /\ rs' = [rs EXCEPT
                !.pc = "forEach",
                !.dampings = rs.options.dampings,
                !.dt = FDiv(One, rs.args.samplingRate[1]),
                !.groundAcceleration =
                    RSConvertAccelerationToMps2(rs.args.acceleration.items,
                                                UnitOrDefault(rs.args.unit)),
                !.converted = TRUE]
    /\ UNCHANGED <<nm, pg, core, appVars>>

\* lines 46-56: one iteration of dampings.forEach
RSForEachDamping ==
    /\ rs.pc = "forEach"
    /\ Len(rs.spectra.acceleration) < Len(rs.dampings)
    /\ LET damping == rs.dampings[Len(rs.spectra.acceleration) + 1]
       IN  rs' = [rs EXCEPT
                    !.spectra = PushSpectrum(rs.spectra,
                        computeForDamping(rs.groundAcceleration, rs.dt,
                                          rs.periods, damping)),
                    !.solves = rs.solves + Len(rs.periods)]
    /\ UNCHANGED <<nm, pg, core, appVars>>

\* lines 58-64
RSReturn ==
    /\ rs.pc = "forEach"
    /\ Len(rs.spectra.acceleration) = Len(rs.dampings)
    /\ rs' = [rs EXCEPT
                !.pc = "returned",
                !.outcome = Return(ResultOf(rs.periods, rs.dampings,
                                            rs.spectra))]
    /\ UNCHANGED <<nm, pg, core, appVars>>

\* responseSpectrumWorker.js lines 7-23
RSWorkerOnMessage ==
    /\ rs.pc # "off"
    /\ rs.worker.pc = "posted"
    /\ rs' = [rs EXCEPT
                !.worker.pc = "replied",
                !.worker.reply = WorkerOnMessage([data |-> rs.worker.message])]
    /\ UNCHANGED <<nm, pg, core, appVars>>

\* main.js lines 233-244
RSMainOnMessage ==
    /\ rs.pc # "off"
    /\ rs.worker.pc = "replied"
    /\ rs' = [rs EXCEPT
                !.worker.pc = "settled",
                !.worker.settled = SettleOnMessage([data |-> rs.worker.reply])]
    /\ UNCHANGED <<nm, pg, core, appVars>>

RSComputeNext ==
    \/ RSCheckArguments
    \/ RSGeneratePeriods
    \/ RSConvert
    \/ RSForEachDamping
    \/ RSReturn

RSNext ==
    \/ RSComputeNext
    \/ RSWorkerOnMessage
    \/ RSMainOnMessage

SpecRS == RSInit /\ [][RSNext]_vars

SpecRSDefault == RSDefaultInit /\ [][RSComputeNext]_vars

(***************************************************************************)
(* The solver run one loop iteration at a time (SpecSolver).               *)
(***************************************************************************)
\* sampling rates 1 and 4 Hz
SamplingRates == {One, 4 * One}

\* natural periods 0.02 s, 1 s, 10 s and damping ratios 0 and 0.05
SolverPeriods == {20, One, 10 * One}
SolverDampings == {0, 50}

NMInit ==
    /\ rs = RSOff /\ pg = PGOff /\ core = CoreOff /\ AppOff
    /\ nm \in {[pc |-> "loop", groundAcceleration |-> g,
                dt |-> FDiv(One, sr),
                period |-> T, damping |-> h, i |-> 0,
                s |-> NewmarkInitial(g)] :
               g \in Records, sr \in SamplingRates,
               T \in SolverPeriods, h \in SolverDampings}

NMCoefficients == NewmarkCoefficients(nm.dt, nm.period, nm.damping)

\* lines 170-204: for (let i = 0; i < groundAcceleration.length - 1; i++)
NMIterate ==
    /\ nm.pc = "loop"
    /\ nm.i < Len(nm.groundAcceleration) - 1
    /\ nm' = [nm EXCEPT
                !.s = NewmarkStep(NMCoefficients, nm.s,
                                  nm.groundAcceleration[nm.i + 2]),
                !.i = nm.i + 1]
    /\ UNCHANGED <<rs, pg, core, appVars>>

\* line 206: return { sa: maxSa, sv: maxSv, sd: maxSd }
NMReturn ==
    /\ nm.pc = "loop"
    /\ ~(nm.i < Len(nm.groundAcceleration) - 1)
    /\ nm' = [nm EXCEPT !.pc = "returned"]
    /\ UNCHANGED <<rs, pg, core, appVars>>

NMNext == NMIterate \/ NMReturn

SpecSolver == NMInit /\ [][NMNext]_vars

(***************************************************************************)
(* C10                                                                     *)
(***************************************************************************)
SetMax(S) == CHOOSE m \in S : \A x \in S : x <= m

\* the absolute responses of loop iterations 1..k, each with 0 added
NMAbsSd(k) ==
    {0} \cup {Abs(NewmarkAfter(NMCoefficients, nm.groundAcceleration, j).displacement) :
              j \in 1..k}
NMAbsSv(k) ==
    {0} \cup {Abs(NewmarkAfter(NMCoefficients, nm.groundAcceleration, j).velocity) :
              j \in 1..k}
NMAbsSa(k) ==
    {0} \cup {Abs(NewmarkAfter(NMCoefficients, nm.groundAcceleration, j).relAcceleration
                  + nm.groundAcceleration[j + 1]) : j \in 1..k}

\* C10, in every state of a solve: each running maximum is >= 0 and is the
\* largest absolute response of the iterations run so far (0 before the
\* first), so the returned Sa, Sv, Sd are the largest over steps 1..n-1
C10_MaximaAreLargestSoFar ==
    nm.pc # "off" =>
        /\ nm.s.maxSd >= 0 /\ nm.s.maxSv >= 0 /\ nm.s.maxSa >= 0
        /\ nm.s.maxSd = SetMax(NMAbsSd(nm.i))
        /\ nm.s.maxSv = SetMax(NMAbsSv(nm.i))
        /\ nm.s.maxSa = SetMax(NMAbsSa(nm.i))

\* C10, step by step: a running maximum never decreases, and when it changes
\* it becomes the new absolute response, strictly larger than the old maximum
C10_StepMonotone ==
    [][nm.pc = "loop" /\ nm'.pc = "loop" =>
         /\ nm'.s.maxSd >= nm.s.maxSd
         /\ nm'.s.maxSv >= nm.s.maxSv
         /\ nm'.s.maxSa >= nm.s.maxSa
         /\ nm'.s.maxSd # nm.s.maxSd => nm'.s.maxSd = Abs(nm'.s.displacement)
         /\ nm'.s.maxSv # nm.s.maxSv => nm'.s.maxSv = Abs(nm'.s.velocity)
         /\ nm'.s.maxSa # nm.s.maxSa =>
               nm'.s.maxSa = Abs(nm'.s.relAcceleration
                                 + nm.groundAcceleration[nm'.i + 1])]_vars

\* C10: Sa, Sv and Sd start at 0, are never negative, only grow, are replaced
\* only by a strictly larger absolute response, and end as the largest
\* absolute response over the time steps
C10_RunningMaxima == [](C10_MaximaAreLargestSoFar) /\ C10_StepMonotone

\* a finished solve of a record of at least 3 samples in which a maximum was
\* raised at one step and a smaller absolute response followed
C10_Witness ==
    /\ nm.pc = "returned"
    /\ Len(nm.groundAcceleration) >= 3
    /\ nm.s.maxSd > 0 /\ nm.s.maxSv > 0 /\ nm.s.maxSa > 0
    /\ Abs(nm.s.displacement) < nm.s.maxSd

(***************************************************************************)
(* Two sweeps of ResponseSpectrum.compute's nested loop over the same      *)
(* record, one solver step at a time and interleaved (SpecSweep): the      *)
(* page's synchronous computation and a worker's each run their own copy   *)
(* of the loop.  A sweep keeps the solver's variables from one call of     *)
(* _computeSinglePeriodResponse to the next; what a call starts from is    *)
(* what lines 162-168 assign.                                              *)
(***************************************************************************)
\* lines 162-168 with the maxima of the previous pair left in place
EnterPairKeepingMaxima(previous, groundAcceleration) ==
    [displacement |-> 0, velocity |-> 0,
     relAcceleration |-> -groundAcceleration[1],
     maxSd |-> previous.maxSd, maxSv |-> previous.maxSv,
     maxSa |-> previous.maxSa]

\* lines 162-168: the variables a call starts from, previous being what the
\* call before it left
EnterPair(previous, groundAcceleration) == NewmarkInitial(groundAcceleration)

\* samples of -1 and 1 m/s2, two to MaxLen of them
SWRecords == UNION {[1..n -> {-One, One}] : n \in 2..MaxLen}

\* the period grids (ascending, as generateLogPeriods returns them) and the
\* damping lists of the two sweeps
SWGridsA ==
    {[periods |-> <<20, One>>, dampings |-> <<0, 50>>],
     [periods |-> <<One>>, dampings |-> <<50, 0>>]}
SWGridsB ==
    {[periods |-> <<20, One>>, dampings |-> <<50, 0>>],
     [periods |-> <<One, 10 * One>>, dampings |-> <<50>>],
     [periods |-> <<20, One, 10 * One>>, dampings |-> <<0>>]}

\* a sweep about to start dampings.forEach (line 46)
SWStart(grid) ==
    [periods |-> grid.periods, dampings |-> grid.dampings,
     at |-> "for", d |-> 1, i |-> 0, k |-> 0,
     s |-> [displacement |-> 0, velocity |-> 0, relAcceleration |-> 0,
            maxSd |-> 0, maxSv |-> 0, maxSa |-> 0],
     series |-> <<>>, spectra |-> <<>>]

SWInit ==
    /\ nm \in {[pc |-> "sweeps", groundAcceleration |-> g, dt |-> One,
                sweep |-> <<SWStart(a), SWStart(b)>>] :
               g \in SWRecords, a \in SWGridsA, b \in SWGridsB}
    /\ rs = RSOff /\ pg = PGOff /\ core = CoreOff /\ AppOff

\* the constants of the pair sweep w is solving
SWCoefficients(w) ==
    NewmarkCoefficients(nm.dt, nm.sweep[w].periods[nm.sweep[w].i + 1],
                        nm.sweep[w].dampings[nm.sweep[w].d])

\* lines 118-119 and 145-168: the next period's call is entered
SWEnterPair ==
    \E w \in 1..2 :
        /\ nm.pc = "sweeps"
        /\ nm.sweep[w].at = "for"
        /\ nm.sweep[w].i < Len(nm.sweep[w].periods)
        /\ nm' = [nm EXCEPT
                    !.sweep[w].at = "loop",
                    !.sweep[w].k = 0,
                    !.sweep[w].s = EnterPair(nm.sweep[w].s,
                                             nm.groundAcceleration)]
        /\ UNCHANGED <<rs, pg, core, appVars>>

\* lines 170-204: one iteration of the solver's loop
SWIterate ==
    \E w \in 1..2 :
        /\ nm.pc = "sweeps"
        /\ nm.sweep[w].at = "loop"
        /\ nm.sweep[w].k < Len(nm.groundAcceleration) - 1
        /\ nm' = [nm EXCEPT
                    !.sweep[w].k = nm.sweep[w].k + 1,
                    !.sweep[w].s =
                        NewmarkStep(SWCoefficients(w), nm.sweep[w].s,
                                    nm.groundAcceleration[nm.sweep[w].k + 2])]
        /\ UNCHANGED <<rs, pg, core, appVars>>

\* lines 206 and 124-126: the call returns and its maxima are stored at i
SWReturnPair ==
    \E w \in 1..2 :
        /\ nm.pc = "sweeps"
        /\ nm.sweep[w].at = "loop"
        /\ ~(nm.sweep[w].k < Len(nm.groundAcceleration) - 1)
        /\ nm' = [nm EXCEPT
                    !.sweep[w].at = "for",
                    !.sweep[w].i = nm.sweep[w].i + 1,
                    !.sweep[w].series =
                        Append(nm.sweep[w].series, Maxima(nm.sweep[w].s))]
        /\ UNCHANGED <<rs, pg, core, appVars>>

\* lines 129-133 and 46-56: the series of one damping is returned and
\* pushed, and forEach goes on to the next damping or ends
SWNextDamping ==
    \E w \in 1..2 :
        /\ nm.pc = "sweeps"
        /\ nm.sweep[w].at = "for"
        /\ ~(nm.sweep[w].i < Len(nm.sweep[w].periods))
        /\ nm' = [nm EXCEPT
                    !.sweep[w].at =
                        IF nm.sweep[w].d < Len(nm.sweep[w].dampings)
                        THEN "for" ELSE "done",
                    !.sweep[w].d = nm.sweep[w].d + 1,
                    !.sweep[w].i = 0,
                    !.sweep[w].series = <<>>,
                    !.sweep[w].spectra =
                        Append(nm.sweep[w].spectra, nm.sweep[w].series)]
        /\ UNCHANGED <<rs, pg, core, appVars>>

SWNext == SWEnterPair \/ SWIterate \/ SWReturnPair \/ SWNextDamping

SpecSweep == SWInit /\ [][SWNext]_vars

(***************************************************************************)
(* C24                                                                     *)
(***************************************************************************)
\* the (damping, period) positions sweep w has solved so far
SWSolved(w) ==
    {<<d, i>> : d \in 1..Len(nm.sweep[w].spectra),
                i \in 1..Len(nm.sweep[w].periods)}
    \cup {<<nm.sweep[w].d, i>> : i \in 1..Len(nm.sweep[w].series)}

\* the { sa, sv, sd } sweep w stored for the solved position p
SWStored(w, p) ==
    IF p[1] <= Len(nm.sweep[w].spectra)
    THEN nm.sweep[w].spectra[p[1]][p[2]]
    ELSE nm.sweep[w].series[p[2]]

SWPeriod(w, p) == nm.sweep[w].periods[p[2]]
SWDamping(w, p) == nm.sweep[w].dampings[p[1]]

\* C24: what a sweep stores for a (period, damping) pair is the value of the
\* record, dt, that period and that damping alone, so two sweeps store the
\* same for every pair they share whatever else their grids hold and in
\* whatever order; every call starts from displacement 0, velocity 0,
\* relAcceleration -groundAcceleration[0] and maxima 0
C24_SweepStateless ==
    nm.pc = "sweeps" =>
        /\ \A w \in 1..2 : \A p \in SWSolved(w) :
              SWStored(w, p)
                 = computeSinglePeriodResponse(nm.groundAcceleration, nm.dt,
                                               SWPeriod(w, p), SWDamping(w, p))
        /\ \A p \in SWSolved(1) : \A q \in SWSolved(2) :
              (SWPeriod(1, p) = SWPeriod(2, q)
                  /\ SWDamping(1, p) = SWDamping(2, q))
                 => SWStored(1, p) = SWStored(2, q)
        /\ \A w \in 1..2 :
              (nm.sweep[w].at = "loop" /\ nm.sweep[w].k = 0)
                 => nm.sweep[w].s = NewmarkInitial(nm.groundAcceleration)

\* both sweeps are done, they went through the dampings in opposite orders,
\* and a pair that was the last of one and not the last of the other has the
\* same maxima, not zero, in both
C24_Witness ==
    /\ nm.pc = "sweeps"
    /\ nm.sweep[1].at = "done" /\ nm.sweep[2].at = "done"
    /\ nm.sweep[1].dampings = <<0, 50>>
    /\ nm.sweep[2].dampings = <<50, 0>>
    /\ nm.sweep[1].periods = nm.sweep[2].periods
    /\ nm.sweep[1].spectra[2][2] = nm.sweep[2].spectra[1][2]
    /\ nm.sweep[1].spectra[2][2].sd > 0
    /\ nm.sweep[1].spectra[2][2] # nm.sweep[1].spectra[1][1]

(***************************************************************************)
(* generateLogPeriods run one loop iteration at a time (SpecPeriods).      *)
(***************************************************************************)
\* periodMin: 0, 0.02, 0.5 and 1 s; periodMax: 0.02, 1, 1.001, 2 and 10 s
PGPeriodMins == {0, 20, 500, One}
PGPeriodMaxs == {20, One, One + 1, 2 * One, 10 * One}
PGDivisions == 0..MaxDivisions

PGInit ==
    /\ pg \in {[pc |-> "enter", periodMin |-> a, periodMax |-> b,
                divisions |-> n, ratio |-> 0, periods |-> <<>>, i |-> 0] :
               a \in PGPeriodMins, b \in PGPeriodMaxs, n \in PGDivisions}
    /\ nm = NMOff /\ rs = RSOff /\ core = CoreOff /\ AppOff

\* lines 75-80
PGEnter ==
    /\ pg.pc = "enter"
    /\ pg' = IF BadPeriodRange(pg.periodMin, pg.periodMax, pg.divisions)
             THEN [pg EXCEPT !.pc = "thrown"]
             ELSE [pg EXCEPT !.pc = "loop",
                             !.ratio = PeriodRatio(pg.periodMin, pg.periodMax,
                                                   pg.divisions)]
    /\ UNCHANGED <<nm, rs, core, appVars>>

\* lines 82-84: for (let i = 0; i <= divisions; i++)
PGFill ==
    /\ pg.pc = "loop"
    /\ pg.i <= pg.divisions
    /\ pg' = [pg EXCEPT
                !.periods = Append(pg.periods,
                                   PeriodAt(pg.periodMin, pg.ratio, pg.i)),
                !.i = pg.i + 1]
    /\ UNCHANGED <<nm, rs, core, appVars>>

\* line 86
PGReturn ==
    /\ pg.pc = "loop"
    /\ ~(pg.i <= pg.divisions)
    /\ pg' = [pg EXCEPT !.pc = "returned"]
    /\ UNCHANGED <<nm, rs, core, appVars>>

PGNext == PGEnter \/ PGFill \/ PGReturn

SpecPeriods == PGInit /\ [][PGNext]_vars

(***************************************************************************)
(* C9                                                                      *)
(***************************************************************************)
PGValid == pg.periodMin > 0 /\ pg.periodMax > pg.periodMin /\ pg.divisions >= 1
PGLast == pg.periods[Len(pg.periods)]

RSSamples == rs.args.acceleration
RSRate == rs.args.samplingRate
RSConfig == ConfigOrDefault(rs.args.config)
RSField(k, default) == IF k \in DOMAIN RSConfig THEN RSConfig[k] ELSE default

RSTooFewSamples == ~RSSamples.isArray \/ Len(RSSamples.items) < 2
RSBadRate == RSRate = <<>> \/ RSRate[1] <= 0
RSBadRange ==
    \/ RSField("periodMin", 20) <= 0
    \/ RSField("periodMax", 10 * One) <= RSField("periodMin", 20)
    \/ RSField("periodDivisions", 200) < 1

\* C5: with too few samples (or no array), a missing or non-positive
\* sampling rate, or an invalid period range, compute throws: it never
\* reaches the unit conversion, runs no solve, returns nothing
C5_ThrowsBeforeComputing ==
    (rs.pc # "off" /\ (RSTooFewSamples \/ RSBadRate \/ RSBadRange)) =>
        /\ rs.pc \in {"compute", "checked", "thrown"}
        /\ rs.pc = "checked" => ~RSTooFewSamples /\ ~RSBadRate
        /\ ~rs.converted /\ rs.solves = 0 /\ rs.spectra = NoSpectra
        /\ rs.pc = "thrown" => rs.outcome.threw
        /\ compute(rs.args.acceleration, rs.args.samplingRate, rs.args.unit,
                   rs.args.config).threw

\* compute has thrown for a period range that is invalid, after samples and
\* sampling rate passed their checks
C5_Witness ==
    /\ rs.pc = "thrown"
    /\ ~RSTooFewSamples /\ ~RSBadRate /\ RSBadRange
    /\ rs.outcome.error = MsgBadPeriodRange
    /\ ~rs.converted /\ rs.solves = 0

\* the peak responses of the oscillator of periods[i] and dampings[k]
RSPeak(result, k, i) ==
    computeSinglePeriodResponse(
        RSConvertAccelerationToMps2(RSSamples.items, UnitOrDefault(rs.args.unit)),
        FDiv(One, RSRate[1]), result.periods[i], result.dampings[k])

\* C7: a returned result has the configured dampings in their order, one
\* series per damping in each of the three spectra, periodDivisions + 1
\* periods, and in every series entry i is the peak response for periods[i]
C7_IndexAligned ==
    rs.pc = "returned" =>
        LET result == rs.outcome.value
        IN  /\ result.dampings = RSField("dampings", <<20, 30, 50>>)
            /\ Len(result.periods) = RSField("periodDivisions", 200) + 1
            /\ \A spectra \in {result.acceleration, result.velocity,
                               result.displacement} :
                  /\ Len(spectra) = Len(result.dampings)
                  /\ \A k \in 1..Len(spectra) :
                        Len(spectra[k]) = Len(result.periods)
            /\ \A k \in 1..Len(result.dampings), i \in 1..Len(result.periods) :
                  /\ result.acceleration[k][i] = RSPeak(result, k, i).sa
                  /\ result.velocity[k][i] = RSPeak(result, k, i).sv
                  /\ result.displacement[k][i] = RSPeak(result, k, i).sd

\* a returned result for two dampings and at least three periods in which
\* the two series differ and a series differs from period to period
C7_Witness ==
    /\ rs.pc = "returned"
    /\ Len(rs.outcome.value.dampings) = 2
    /\ Len(rs.outcome.value.periods) >= 3
    /\ rs.outcome.value.acceleration[1] # rs.outcome.value.acceleration[2]
    /\ rs.outcome.value.velocity[1] # rs.outcome.value.velocity[2]
    /\ rs.outcome.value.displacement[1][2] # rs.outcome.value.displacement[1][3]

\* C4: for the same four arguments, what the worker path settles the
\* promise with is what the in-process compute ends with: the same result,
\* or an error with the same message
C4_PathsAgree ==
    (rs.pc \in {"returned", "thrown"} /\ rs.worker.pc = "settled") =>
        /\ rs.worker.message = rs.args
        /\ rs.worker.settled = rs.outcome

\* both paths have ended with a result that is not all zero, for samples
\* given in gal
C4_Witness ==
    /\ rs.pc = "returned" /\ rs.worker.pc = "settled"
    /\ ~rs.worker.settled.threw
    /\ rs.args.unit = <<UnitGal>>
    /\ \E i \in 1..Len(rs.worker.settled.value.periods) :
          rs.worker.settled.value.acceleration[1][i] > 0

\* C8: every field config leaves out takes its default (periodMin 0.02,
\* periodMax 10, periodDivisions 200, dampings 0.02, 0.03, 0.05), and with
\* no field given the result has 201 periods and three series of 201
\* entries, for the dampings 0.02, 0.03, 0.05 in that order
C8_Defaults ==
    /\ rs.pc \in {"periods", "forEach", "returned"} =>
          /\ rs.options.periodMin = RSField("periodMin", 20)
          /\ rs.options.periodMax = RSField("periodMax", 10000)
          /\ rs.options.periodDivisions = RSField("periodDivisions", 200)
          /\ rs.options.dampings = RSField("dampings", <<20, 30, 50>>)
    /\ (rs.pc = "returned" /\ DOMAIN RSConfig = {}) =>
          LET result == rs.outcome.value
          IN  /\ Len(result.periods) = 201
              /\ result.dampings = <<20, 30, 50>>
              /\ \A spectra \in {result.acceleration, result.velocity,
                                 result.displacement} :
                    /\ Len(spectra) = 3
                    /\ \A k \in 1..3 : Len(spectra[k]) = 201

\* compute has returned for a valid record and no config at all
C8_Witness ==
    /\ rs.pc = "returned"
    /\ rs.args.config = <<>>
    /\ Len(rs.outcome.value.periods) = 201
    /\ Len(rs.outcome.value.acceleration) = 3

(***************************************************************************)
(* Analysis: the unit converters (js/analysis.js).  The samples are the    *)
(* same doubles ResponseSpectrum.compute receives, so the converters round *)
(* as the engine's converter does.  The unit 'cm/s2' with a superscript    *)
(* two is written UnitCmS2Sup.                                             *)
(***************************************************************************)
UnitCmS2Sup == "cm/s^2"

\* lines 242-246
isCmPerSec2Unit(unit) ==
    unit = UnitCmS2 \/ unit = UnitCmS2Sup \/ unit = UnitGal

\* lines 254-262
convertAccelerationToMps2(acceleration, unit) ==
    IF isCmPerSec2Unit(unit)
    THEN [i \in 1..Len(acceleration) |-> FDiv(acceleration[i], 100 * One)]
    ELSE IF unit = UnitG
    THEN [i \in 1..Len(acceleration) |-> FMul(acceleration[i], StandardGravity)]
    ELSE acceleration

\* the converter that knows 'gal' alone among the gal-equivalent units
convertAccelerationFromMps2GalOnly(acceleration, unit) ==
    IF unit = UnitGal
    THEN [i \in 1..Len(acceleration) |-> FMul(acceleration[i], 100 * One)]
    ELSE IF unit = UnitG
    THEN [i \in 1..Len(acceleration) |-> FDiv(acceleration[i], StandardGravity)]
    ELSE acceleration

\* lines 270-278
convertAccelerationFromMps2(acceleration, unit) ==
    IF isCmPerSec2Unit(unit)
    THEN [i \in 1..Len(acceleration) |-> FMul(acceleration[i], 100 * One)]
    ELSE IF unit = UnitG
    THEN [i \in 1..Len(acceleration) |-> FDiv(acceleration[i], StandardGravity)]
    ELSE acceleration

(***************************************************************************)
(* The converters applied to one record (SpecUnits): the integrator's      *)
(* converter, its inverse on the converted record, and the normalisation   *)
(* ResponseSpectrum.compute does on the same record.                       *)
(***************************************************************************)
\* the units the unit selector and runAnalysis (main.js 284, 303) hand over
UCUnits == {UnitMps2, UnitCmS2, UnitCmS2Sup, UnitGal, UnitG}

\* samples: the whole numbers of SampleValues, 0.005 and 0.25
UCSampleValues == SampleValues \cup {5, 250}
UCRecords == UNION {[1..n -> UCSampleValues] : n \in 0..MaxLen}

UCInit ==
    /\ core \in {[pc |-> "called", samples |-> x, unit |-> u, mps2 |-> <<>>,
                  restored |-> <<>>, ground |-> <<>>] :
                 x \in UCRecords, u \in UCUnits}
    /\ nm = NMOff /\ rs = RSOff /\ pg = PGOff /\ AppOff

\* analysis.js: convertAccelerationToMps2(samples, unit)
UCToMps2 ==
    /\ core.pc = "called"
    /\ core' = [core EXCEPT
                  !.pc = "converted",
                  !.mps2 = convertAccelerationToMps2(core.samples, core.unit)]
    /\ UNCHANGED <<nm, rs, pg, appVars>>

\* analysis.js: convertAccelerationFromMps2(converted, unit)
UCFromMps2 ==
    /\ core.pc = "converted"
    /\ core' = [core EXCEPT
                  !.pc = "restored",
                  !.restored = convertAccelerationFromMps2(core.mps2, core.unit)]
    /\ UNCHANGED <<nm, rs, pg, appVars>>

\* responseSpectrum.js line 40, on the same samples and unit
UCNormalize ==
    /\ core.pc # "off"
    /\ core.ground = <<>>
    /\ core' = [core EXCEPT
                  !.ground = <<RSConvertAccelerationToMps2(core.samples,
                                                           core.unit)>>]
    /\ UNCHANGED <<nm, rs, pg, appVars>>

UCNext == UCToMps2 \/ UCFromMps2 \/ UCNormalize

SpecUnits == UCInit /\ [][UCNext]_vars

(***************************************************************************)
(* C11                                                                     *)
(***************************************************************************)
\* C11: for each of the five units the engine's normalised record is the
\* integrator's converted record: divided by 100 for gal, cm/s2 and cm/s^2,
\* multiplied by 9.80665 for g, the samples themselves for m/s^2
C11_SameFactorAsIntegrator ==
    (core.pc # "called" /\ core.ground # <<>>) =>
        /\ core.ground[1] = core.mps2
        /\ isCmPerSec2Unit(core.unit) =>
              core.ground[1] = [i \in 1..Len(core.samples) |->
                                   FDiv(core.samples[i], 100 * One)]
        /\ core.unit = UnitG =>
              core.ground[1] = [i \in 1..Len(core.samples) |->
                                   FMul(core.samples[i], StandardGravity)]
        /\ core.unit = UnitMps2 => core.ground[1] = core.samples

(***************************************************************************)
(* C12                                                                     *)
(***************************************************************************)
\* the factor convertAccelerationFromMps2 applies for a unit
UCBackFactor(unit) ==
    IF isCmPerSec2Unit(unit) THEN 100 * One
    ELSE IF unit = UnitG THEN FDiv(One, StandardGravity)
    ELSE 0

\* C12 as stated: the record converted to m/s^2 and back is the record,
\* element for element, with the same length
C12_AsStated ==
    core.pc = "restored" => core.restored = core.samples

\* C12, amended: the record converted and back has the same length; for
\* m/s^2 it is the record itself; for the other units each element is the
\* sample within the rounding of the two operations: half a rounding unit
\* of the quotient or product that comes last, and half a rounding unit of
\* the first one magnified by the factor of the second
C12_RoundTripUpToRounding ==
    core.pc = "restored" =>
        /\ Len(core.restored) = Len(core.samples)
        /\ core.unit = UnitMps2 => core.restored = core.samples
        /\ \A i \in 1..Len(core.samples) :
              2 * Scale * Abs(core.restored[i] - core.samples[i])
                  <= Scale + UCBackFactor(core.unit)

\* a record of two samples or more, in a gal-equivalent unit other than
\* 'gal', that does not come back as it was
C12_Witness ==
    /\ core.pc = "restored"
    /\ core.unit = UnitCmS2
    /\ Len(core.samples) >= 2
    /\ core.restored # core.samples
    /\ core.restored[1] = core.samples[1]

(***************************************************************************)
(* Floating-point numbers for js/analysis.js and js/fft.js.  The sums of   *)
(* the baseline fit and of the integrator round as well as the products,   *)
(* and a quotient by a power of two is exact, so these modules are         *)
(* modelled on binary floating-point numbers with a significand of         *)
(* Precision bits: the integer x stands for x / BOne, and the result of    *)
(* every operation is the exact result rounded to the nearest number with  *)
(* Precision significant bits, halves to the even one (IEEE-754            *)
(* round-to-nearest-even; a double has 53 bits).  Numbers below 1 / BOne   *)
(* in magnitude are rounded to a multiple of 1 / BOne, as subnormals are.  *)
(***************************************************************************)
Precision == 5
BOne == 2 * 2 * 2 * 2 * 2 * 2

\* the number of bits of the natural number q
RECURSIVE BitLength(_)
BitLength(q) == IF q = 0 THEN 0 ELSE 1 + BitLength(q \div 2)

\* the spacing of the representable numbers at the natural number q
UlpOf(q) ==
    IF BitLength(q) > Precision THEN 2 ^ (BitLength(q) - Precision) ELSE 1

\* a / d rounded to the nearest integer, halves to the even one (a >= 0, d > 0)
RoundHalfEven(a, d) ==
    IF 2 * (a % d) > d \/ (2 * (a % d) = d /\ (a \div d) % 2 = 1)
    THEN (a \div d) + 1
    ELSE a \div d

\* a / d rounded to Precision significant bits (a >= 0, d > 0)
FlAbs(a, d) == UlpOf(a \div d) * RoundHalfEven(a, d * UlpOf(a \div d))

\* num / den rounded to Precision significant bits (den # 0)
Fl(num, den) ==
    IF (num < 0) # (den < 0)
    THEN -FlAbs(Abs(num), Abs(den))
    ELSE FlAbs(Abs(num), Abs(den))

\* the whole number n as a floating-point number
Num(n) == Fl(n * BOne, 1)

BAdd(x, y) == Fl(x + y, 1)
BSub(x, y) == Fl(x - y, 1)
BMul(x, y) == Fl(x * y, BOne)
BDiv(x, y) == Fl(x * BOne, y)

(***************************************************************************)
(* Analysis.removeBaseline, integrate and median (js/analysis.js).         *)
(***************************************************************************)
\* lines 194-200: one iteration of the loop, i the index and v = data[i]
Accumulate(s, i, v) ==
    [sumX  |-> BAdd(s.sumX, Num(i)),
     sumY  |-> BAdd(s.sumY, v),
     sumXY |-> BAdd(s.sumXY, BMul(Num(i), v)),
     sumX2 |-> BAdd(s.sumX2, BMul(Num(i), Num(i)))]

\* lines 194-200: the sums after the first k samples
RECURSIVE RegressionSums(_, _)
RegressionSums(data, k) ==
    IF k = 0
    THEN [sumX |-> 0, sumY |-> 0, sumXY |-> 0, sumX2 |-> 0]
    ELSE Accumulate(RegressionSums(data, k - 1), k - 1, data[k])

\* line 202
Slope(s, n) ==
    BDiv(BSub(BMul(Num(n), s.sumXY), BMul(s.sumX, s.sumY)),
         BSub(BMul(Num(n), s.sumX2), BMul(s.sumX, s.sumX)))

\* line 203 with the divisor n - 1
InterceptOffByOne(s, n, slope) ==
    BDiv(BSub(s.sumY, BMul(slope, s.sumX)), Num(n - 1))

\* line 203
Intercept(s, n, slope) ==
    BDiv(BSub(s.sumY, BMul(slope, s.sumX)), Num(n))

\* line 206
Detrend(data, slope, intercept) ==
    [i \in 1..Len(data) |->
        BSub(data[i], BAdd(BMul(slope, Num(i - 1)), intercept))]

\* lines 202-206
DetrendWith(data, s, slope) ==
    Detrend(data, slope, Intercept(s, Len(data), slope))

\* lines 202-206
DetrendBy(data, s) == DetrendWith(data, s, Slope(s, Len(data)))

\* lines 187-207 with zeros returned for fewer than two samples
removeBaselineZeroed(data) ==
    IF Len(data) < 2
    THEN [i \in 1..Len(data) |-> 0]
    ELSE DetrendBy(data, RegressionSums(data, Len(data)))

\* lines 187-207
removeBaseline(data) ==
    IF Len(data) < 2
    THEN data
    ELSE DetrendBy(data, RegressionSums(data, Len(data)))

\* line 232: integrated[i], previous = integrated[i - 1], a and b the samples
\* correctedData[i - 1] and correctedData[i]
TrapezoidRule(previous, a, b, dt) ==
    BAdd(previous, BDiv(BMul(BAdd(a, b), dt), Num(2)))

\* lines 229-232 with integrated[0] = dt
RECURSIVE TrapezoidFromStep(_, _, _)
TrapezoidFromStep(correctedData, dt, k) ==
    IF k = 1
    THEN <<dt>>
    ELSE Append(TrapezoidFromStep(correctedData, dt, k - 1),
                TrapezoidRule(TrapezoidFromStep(correctedData, dt, k - 1)[k - 1],
                              correctedData[k - 1], correctedData[k], dt))

\* lines 229-232: integrated[0..k-1], k >= 1
RECURSIVE Trapezoid(_, _, _)
Trapezoid(correctedData, dt, k) ==
    IF k = 1
    THEN <<0>>
    ELSE Append(Trapezoid(correctedData, dt, k - 1),
                TrapezoidRule(Trapezoid(correctedData, dt, k - 1)[k - 1],
                              correctedData[k - 1], correctedData[k], dt))

\* lines 216-235 with the baseline never removed
integrateNeverDetrending(data, dt, detrend) ==
    IF Len(data) < 2
    THEN <<0>>
    ELSE Trapezoid(data, dt, Len(data))

\* lines 216-235
integrate(data, dt, detrend) ==
    IF Len(data) < 2
    THEN <<0>>
    ELSE Trapezoid(IF detrend THEN removeBaseline(data) ELSE data, dt,
                   Len(data))

\* Array.prototype.sort((a, b) => a - b): v inserted into the sorted s
RECURSIVE Insert(_, _)
Insert(s, v) ==
    IF s = <<>> THEN <<v>>
    ELSE IF v < s[1] THEN <<v>> \o s
    ELSE <<s[1]>> \o Insert(Tail(s), v)

RECURSIVE Sorted(_)
Sorted(data) ==
    IF data = <<>> THEN <<>>
    ELSE Insert(Sorted(Tail(data)), data[1])

\* lines 84-87, sorted the sorted copy (not empty), counted from 1
MedianOf(sorted) ==
    IF Len(sorted) % 2 # 0
    THEN sorted[(Len(sorted) \div 2) + 1]
    ELSE BDiv(BAdd(sorted[Len(sorted) \div 2],
                   sorted[(Len(sorted) \div 2) + 1]),
              Num(2))

\* lines 82-88
median(data) == MedianOf(Sorted(data))

(***************************************************************************)
(* removeBaseline, integrate and median called on one record               *)
(* (SpecAnalysis).                                                         *)
(***************************************************************************)
\* samples: -1, 0, 1, 1.375 and 5
ANSampleValues == {-BOne, 0, BOne, BOne + 24, 5 * BOne}
ANRecords == UNION {[1..n -> ANSampleValues] : n \in 0..MaxLen}

\* dt = 1 / samplingRate: 0.25 s and 1 s
ANSteps == {BOne \div 4, BOne}

ANInit ==
    /\ core \in {[pc |-> "called", data |-> x, dt |-> h, detrend |-> b,
                  baseline |-> <<>>, integrated |-> <<>>, median |-> <<>>] :
                 x \in ANRecords, h \in ANSteps, b \in BOOLEAN}
    /\ nm = NMOff /\ rs = RSOff /\ pg = PGOff /\ AppOff

\* removeBaseline(data)
ANRemoveBaseline ==
    /\ core.pc = "called"
    /\ core.baseline = <<>>
    /\ core' = [core EXCEPT !.baseline = <<removeBaseline(core.data)>>]
    /\ UNCHANGED <<nm, rs, pg, appVars>>

\* integrate(data, dt, detrend)
ANIntegrate ==
    /\ core.pc = "called"
    /\ core.integrated = <<>>
    /\ core' = [core EXCEPT
                  !.integrated = <<integrate(core.data, core.dt,
                                             core.detrend)>>]
    /\ UNCHANGED <<nm, rs, pg, appVars>>

\* median(data); computeAll hands it two samples or more (main.js 320)
ANMedian ==
    /\ core.pc = "called"
    /\ core.median = <<>>
    /\ Len(core.data) >= 1
    /\ core' = [core EXCEPT !.median = <<median(core.data)>>]
    /\ UNCHANGED <<nm, rs, pg, appVars>>

ANNext == ANRemoveBaseline \/ ANIntegrate \/ ANMedian

SpecAnalysis == ANInit /\ [][ANNext]_vars

(***************************************************************************)
(* C20                                                                     *)
(***************************************************************************)
\* the record is n >= 2 times the same sample and removeBaseline has returned
ANConstant ==
    /\ core.pc = "called"
    /\ core.baseline # <<>>
    /\ Len(core.data) >= 2
    /\ \A i \in 1..Len(core.data) : core.data[i] = core.data[1]

\* the sums of the fit came out without rounding: sumX = n(n-1)/2,
\* sumY = n c and sumXY = c n(n-1)/2
ANExactSums(data) ==
    /\ RegressionSums(data, Len(data)).sumX
          = BOne * ((Len(data) * (Len(data) - 1)) \div 2)
    /\ RegressionSums(data, Len(data)).sumY = Len(data) * data[1]
    /\ RegressionSums(data, Len(data)).sumXY
          = data[1] * ((Len(data) * (Len(data) - 1)) \div 2)

\* C20 as stated: of a record that is n >= 2 times the same sample,
\* removeBaseline returns n zeros
C20_AsStated ==
    ANConstant =>
        core.baseline[1] = [i \in 1..Len(core.data) |-> 0]

\* C20, amended: of a record that is n >= 2 times the same sample,
\* removeBaseline returns n numbers, and they are all zero when the sums of
\* the fit are exact, as they are for [5, 5, 5]
C20_ZeroWhenSumsExact ==
    ANConstant =>
        /\ Len(core.baseline[1]) = Len(core.data)
        /\ ANExactSums(core.data) =>
              core.baseline[1] = [i \in 1..Len(core.data) |-> 0]

\* the record [5, 5, 5] with its baseline removed
C20_Witness ==
    /\ ANConstant
    /\ Len(core.data) >= 3
    /\ core.data[1] = 5 * BOne
    /\ ANExactSums(core.data)
    /\ core.baseline[1] = [i \in 1..Len(core.data) |-> 0]

(***************************************************************************)
(* C21, C22, C23                                                           *)
(***************************************************************************)
\* integrate has returned for a record of two samples or more
ANIntegrated ==
    /\ core.pc = "called"
    /\ core.integrated # <<>>
    /\ Len(core.data) >= 2

\* the sequence integrate works on: removeBaseline(data) when detrend is
\* true, data itself when it is false
ANCorrected == IF core.detrend THEN removeBaseline(core.data) ELSE core.data

\* C21: of n >= 2 zeros integrate returns n zeros, for every dt, with the
\* baseline correction and without it
C21_ZerosIntegrateToZeros ==
    (ANIntegrated /\ \A i \in 1..Len(core.data) : core.data[i] = 0) =>
        core.integrated[1] = [i \in 1..Len(core.data) |-> 0]

\* three zeros or more integrated with the baseline correction
C21_Witness ==
    /\ ANIntegrated
    /\ Len(core.data) >= 3
    /\ \A i \in 1..Len(core.data) : core.data[i] = 0
    /\ core.detrend
    /\ core.integrated[1] = [i \in 1..Len(core.data) |-> 0]

\* C22 as stated: y has the length of x, y[0] = 0 and the difference
\* y[i] - y[i-1], as the program would compute it, is
\* (x'[i-1] + x'[i]) * dt / 2
C22_AsStated ==
    ANIntegrated =>
        /\ Len(core.integrated[1]) = Len(core.data)
        /\ core.integrated[1][1] = 0
        /\ \A i \in 2..Len(core.data) :
              BSub(core.integrated[1][i], core.integrated[1][i - 1])
                 = BDiv(BMul(BAdd(ANCorrected[i - 1], ANCorrected[i]),
                             core.dt),
                        Num(2))

\* C22, amended: y has the length of x, y[0] = 0 and y[i] is the rounded sum
\* of y[i-1] and (x'[i-1] + x'[i]) * dt / 2, every operation rounded in turn
C22_TrapezoidRecurrence ==
    ANIntegrated =>
        /\ Len(core.integrated[1]) = Len(core.data)
        /\ core.integrated[1][1] = 0
        /\ \A i \in 2..Len(core.data) :
              core.integrated[1][i]
                 = BAdd(core.integrated[1][i - 1],
                        BDiv(BMul(BAdd(ANCorrected[i - 1], ANCorrected[i]),
                                  core.dt),
                             Num(2)))

\* a record whose baseline correction changes it has been integrated, and
\* the sum of one step was rounded
C22_Witness ==
    /\ ANIntegrated
    /\ core.detrend
    /\ ANCorrected # core.data
    /\ \E i \in 2..Len(core.data) :
          core.integrated[1][i]
             # core.integrated[1][i - 1]
                 + BDiv(BMul(BAdd(ANCorrected[i - 1], ANCorrected[i]), core.dt),
                        Num(2))

\* C23: of fewer than two samples removeBaseline returns the samples as they
\* are and integrate returns [0], the empty record included
C23_DegenerateInputs ==
    (core.pc = "called" /\ Len(core.data) < 2) =>
        /\ core.baseline # <<>> => core.baseline[1] = core.data
        /\ core.integrated # <<>> => core.integrated[1] = <<0>>

\* both operations have returned for a record of one sample that is not zero
C23_Witness ==
    /\ core.pc = "called"
    /\ Len(core.data) = 1
    /\ core.data[1] # 0
    /\ core.baseline = <<core.data>>
    /\ core.integrated = <<(<<0>>)>>

\* both operations have returned for the empty record
C23_WitnessEmpty ==
    /\ core.pc = "called"
    /\ core.data = <<>>
    /\ core.baseline = <<(<<>>)>>
    /\ core.integrated = <<(<<0>>)>>

(***************************************************************************)
(* Math.cos, Math.sin, Math.sqrt and Math.PI.  The library functions       *)
(* return the representable number nearest to the exact value: here the    *)
(* exact value is computed on a grid of 1 / TrigOne (the cosine by its     *)
(* series after reduction to the first quadrant, the square root by        *)
(* bisection) and then rounded to Precision bits.                          *)
(***************************************************************************)
TrigOne == BOne * BOne
PiFine == 12868
MathPI == Fl(PiFine * BOne, TrigOne)

\* 1 - x2 * c / d on the grid
CosTerm(x2, c, d) == TrigOne - RoundDiv(RoundDiv(x2 * c, TrigOne), d)

\* cos r for 0 <= r <= pi / 2, x2 = r * r
CosSeries(x2) ==
    CosTerm(x2, CosTerm(x2, CosTerm(x2, CosTerm(x2, CosTerm(x2, TrigOne,
                                                               90),
                                                   56), 30), 12), 2)

CosFirstQuadrant(r) == CosSeries(RoundDiv(r * r, TrigOne))

\* cos r for 0 <= r < 2 pi
CosReduced(r) ==
    IF 2 * r <= PiFine THEN CosFirstQuadrant(r)
    ELSE IF r <= PiFine THEN -CosFirstQuadrant(PiFine - r)
    ELSE IF 2 * r <= 3 * PiFine THEN -CosFirstQuadrant(r - PiFine)
    ELSE CosFirstQuadrant(2 * PiFine - r)

\* cos a for an angle a on the grid
CosFine(a) == CosReduced(a % (2 * PiFine))

MathCos(x) == Fl(CosFine(x * (TrigOne \div BOne)) * BOne, TrigOne)
MathSin(x) ==
    Fl(CosFine(x * (TrigOne \div BOne) - (PiFine \div 2)) * BOne, TrigOne)

\* the largest s in lo..hi with s * s <= n (lo * lo <= n)
RECURSIVE SqrtSearch(_, _, _)
SqrtSearch(lo, hi, n) ==
    IF lo >= hi THEN lo
    ELSE IF ((lo + hi + 1) \div 2) * ((lo + hi + 1) \div 2) <= n
         THEN SqrtSearch((lo + hi + 1) \div 2, hi, n)
         ELSE SqrtSearch(lo, ((lo + hi + 1) \div 2) - 1, n)

\* Math.sqrt(x), x >= 0: the root of x / BOne taken with four more bits
MathSqrt(x) == Fl(SqrtSearch(0, 16 * (x + BOne), x * BOne * 256), 16)

(***************************************************************************)
(* FFT.nextPowerOf2, zeroPad and applyWindow (js/fft.js).  An array length *)
(* is a whole number, not a floating-point one.                            *)
(***************************************************************************)
\* Math.ceil(Math.log2(n)), n >= 1
RECURSIVE CeilLog2(_)
CeilLog2(n) == IF n <= 1 THEN 0 ELSE 1 + CeilLog2((n + 1) \div 2)

\* the power of two above n, also when n is one
nextPowerOf2Above(n) == IF n = 0 THEN 0 ELSE 2 ^ (CeilLog2(n + 1))

\* lines 12-14; Math.log2(0) is -Infinity and Math.pow(2, -Infinity) is 0
nextPowerOf2(n) == IF n = 0 THEN 0 ELSE 2 ^ CeilLog2(n)

\* new Array(n).fill(0) written at the indices below the length of data:
\* a write at or above n lengthens the array
Padded(data, n) ==
    [i \in 1..(IF n < Len(data) THEN Len(data) ELSE n) |->
        IF i <= Len(data) THEN data[i] ELSE 0]

\* the data as they are
zeroPadNothing(data) == Padded(data, Len(data))

\* lines 21-28
zeroPad(data) == Padded(data, nextPowerOf2(Len(data)))

WindowHanning == "hanning"
WindowHamming == "hamming"
WindowBlackman == "blackman"
WindowRectangular == "rectangular"

\* a decimal literal of the source: num / den rounded to a number
Literal(num, den) == Fl(num * BOne, den)

\* 2 * Math.PI * i / (n - 1) and 4 * Math.PI * i / (n - 1), n >= 2
WindowAngle(k, i, n) ==
    BDiv(BMul(BMul(Num(k), MathPI), Num(i)), Num(n - 1))

\* lines 42-57: the weight of sample i of n
WindowWeight(windowType, i, n) ==
    IF windowType = WindowHanning
    THEN BMul(Literal(1, 2), BSub(BOne, MathCos(WindowAngle(2, i, n))))
    ELSE IF windowType = WindowHamming
    THEN BSub(Literal(54, 100),
              BMul(Literal(46, 100), MathCos(WindowAngle(2, i, n))))
    ELSE IF windowType = WindowBlackman
    THEN BAdd(BSub(Literal(42, 100),
                   BMul(Literal(1, 2), MathCos(WindowAngle(2, i, n)))),
              BMul(Literal(8, 100), MathCos(WindowAngle(4, i, n))))
    ELSE BOne

\* lines 36-62
applyWindow(data, windowType) ==
    [i \in 1..Len(data) |->
        BMul(data[i], WindowWeight(windowType, i - 1, Len(data)))]

(***************************************************************************)
(* FFT.transform (js/fft.js), one loop iteration at a time.  A run of      *)
(* transform is [pc, real, imag, i, j, mmax, m]: i, j, mmax and m are the  *)
(* variables of the source, counted from 0; real and imag are changed in   *)
(* place.  A read of real[j] or imag[j] at or above the length gives       *)
(* undefined and a write there lengthens the array: the run is then        *)
(* "outOfRange" and goes no further.                                       *)
(***************************************************************************)
\* line 70-72
StartTransform(real, imag) ==
    [pc |-> IF Len(real) <= 1 THEN "done" ELSE "reverse",
     real |-> real, imag |-> imag, i |-> 0, j |-> 0, mmax |-> 1, m |-> 0]

\* an index both arrays have
InBoth(t, k) == 0 <= k /\ k < Len(t.real) /\ k < Len(t.imag)

\* lines 80-85: j after the while loop and j += m
RECURSIVE ReverseIncrement(_, _)
ReverseIncrement(j, m) ==
    IF m >= 1 /\ j >= m
    THEN ReverseIncrement(j - m, m \div 2)
    ELSE j + m

\* lines 77-78
Swap(a, i, j) == [a EXCEPT ![i + 1] = a[j + 1], ![j + 1] = a[i + 1]]

\* lines 75-86 with the test i # j in place of i < j
BitReverseStepSwappingBoth(t) ==
    IF t.i # t.j /\ ~(InBoth(t, t.i) /\ InBoth(t, t.j))
    THEN [t EXCEPT !.pc = "outOfRange"]
    ELSE [t EXCEPT
            !.real = IF t.i # t.j THEN Swap(t.real, t.i, t.j) ELSE t.real,
            !.imag = IF t.i # t.j THEN Swap(t.imag, t.i, t.j) ELSE t.imag,
            !.j = ReverseIncrement(t.j, Len(t.real) \div 2),
            !.i = IF t.i + 1 < Len(t.real) THEN t.i + 1 ELSE 0,
            !.pc = IF t.i + 1 < Len(t.real) THEN "reverse" ELSE "butterfly"]

\* lines 75-86: one iteration of the for loop; after the last one the
\* butterfly loops start at mmax = 1, m = 0, i = 0
BitReverseStep(t) ==
    IF t.i < t.j /\ ~(InBoth(t, t.i) /\ InBoth(t, t.j))
    THEN [t EXCEPT !.pc = "outOfRange"]
    ELSE [t EXCEPT
            !.real = IF t.i < t.j THEN Swap(t.real, t.i, t.j) ELSE t.real,
            !.imag = IF t.i < t.j THEN Swap(t.imag, t.i, t.j) ELSE t.imag,
            !.j = ReverseIncrement(t.j, Len(t.real) \div 2),
            !.i = IF t.i + 1 < Len(t.real) THEN t.i + 1 ELSE 0,
            !.pc = IF t.i + 1 < Len(t.real) THEN "reverse" ELSE "butterfly"]

\* lines 90 and 95-97: Math.cos(m * theta) and Math.sin(m * theta)
TwiddleAngle(mmax, m) == BMul(Num(m), BDiv(-MathPI, Num(mmax)))

\* lines 104-107
Rotated(t, j, tr, ti) ==
    [t EXCEPT !.real = [t.real EXCEPT ![j + 1] = BSub(t.real[t.i + 1], tr),
                                      ![t.i + 1] = BAdd(t.real[t.i + 1], tr)],
              !.imag = [t.imag EXCEPT ![j + 1] = BSub(t.imag[t.i + 1], ti),
                                      ![t.i + 1] = BAdd(t.imag[t.i + 1], ti)]]

\* lines 100-107
Butterfly(t, j, wr, wi) ==
    Rotated(t, j,
            BSub(BMul(wr, t.real[j + 1]), BMul(wi, t.imag[j + 1])),
            BAdd(BMul(wr, t.imag[j + 1]), BMul(wi, t.real[j + 1])))

\* lines 89, 94 and 99: the loop variables after the body at (mmax, m, i)
NextPosition(t, n) ==
    IF t.i + 2 * t.mmax < n
    THEN [t EXCEPT !.i = t.i + 2 * t.mmax]
    ELSE IF t.m + 1 < t.mmax
    THEN [t EXCEPT !.m = t.m + 1, !.i = t.m + 1]
    ELSE IF 2 * t.mmax < n
    THEN [t EXCEPT !.mmax = 2 * t.mmax, !.m = 0, !.i = 0]
    ELSE [t EXCEPT !.pc = "done"]

\* lines 99-108: one iteration of the innermost loop
ButterflyStep(t) ==
    IF ~(InBoth(t, t.i) /\ InBoth(t, t.i + t.mmax))
    THEN [t EXCEPT !.pc = "outOfRange"]
    ELSE NextPosition(Butterfly(t, t.i + t.mmax,
                                MathCos(TwiddleAngle(t.mmax, t.m)),
                                MathSin(TwiddleAngle(t.mmax, t.m))),
                      Len(t.real))

TransformStep(t) ==
    IF t.pc = "reverse" THEN BitReverseStep(t) ELSE ButterflyStep(t)

\* lines 69-115: the run from t to its end
RECURSIVE RunTransform(_)
RunTransform(t) ==
    IF t.pc \in {"done", "outOfRange"} THEN t
    ELSE RunTransform(TransformStep(t))

(***************************************************************************)
(* FFT.amplitudeSpectrum and powerSpectrum.  options is                    *)
(* [windowType, normalize], each a sequence of length 0 (absent) or 1.     *)
(***************************************************************************)
\* lines 125-128
WindowTypeOf(options) ==
    IF options.windowType = <<>> THEN WindowHanning ELSE options.windowType[1]
NormalizeOf(options) ==
    IF options.normalize = <<>> THEN TRUE ELSE options.normalize[1]

\* line 152
Magnitude(re, im) == MathSqrt(BAdd(BMul(re, re), BMul(im, im)))

\* line 156
Normalized(amp, i, n) ==
    IF i = 0 \/ 2 * i = n
    THEN BDiv(amp, Num(n))
    ELSE BDiv(BMul(Num(2), amp), Num(n))

\* lines 152-159: the amplitude of bin i
BinAmplitude(amp, i, n, normalize) ==
    IF normalize THEN Normalized(amp, i, n) ELSE amp

\* line 151, df = samplingRate / n, the bins counted from 1
BinFrequencyFromOne(i, df) == BMul(Num(i + 1), df)

\* line 151, df = samplingRate / n
BinFrequency(i, df) == BMul(Num(i), df)

\* lines 145-162: the bins i = 0 .. halfN of a transformed run of length
\* n > 0
Spectrum(t, n, samplingRate, normalize) ==
    [frequencies |-> [k \in 1..((n \div 2) + 1) |->
                         BinFrequency(k - 1, BDiv(samplingRate, Num(n)))],
     amplitudes  |-> [k \in 1..((n \div 2) + 1) |->
                         BinAmplitude(Magnitude(t.real[k], t.imag[k]),
                                      k - 1, n, normalize)]]

\* lines 138-142
Transformed(processedData) ==
    RunTransform(StartTransform(processedData,
                                [i \in 1..Len(processedData) |-> 0]))

\* lines 135 and 145-162: n = processedData.length
SpectrumOf(t, samplingRate, normalize) ==
    Spectrum(t, Len(t.real), samplingRate, normalize)

\* lines 124-163, data not empty
amplitudeSpectrum(data, samplingRate, options) ==
    SpectrumOf(Transformed(zeroPad(applyWindow(data, WindowTypeOf(options)))),
               samplingRate, NormalizeOf(options))

\* line 174
PowersOf(amplitudes) ==
    [k \in 1..Len(amplitudes) |-> BMul(amplitudes[k], amplitudes[k])]

\* line 174 without the square
PowersNotSquared(spectrum) ==
    [frequencies |-> spectrum.frequencies, powers |-> spectrum.amplitudes]

\* lines 174-175
Powers(spectrum) ==
    [frequencies |-> spectrum.frequencies,
     powers |-> PowersOf(spectrum.amplitudes)]

\* lines 172-176
powerSpectrum(data, samplingRate, options) ==
    Powers(amplitudeSpectrum(data, samplingRate, options))

(***************************************************************************)
(* amplitudeSpectrum run one step at a time, and powerSpectrum called on   *)
(* the same arguments (SpecFFT).  runAnalysis hands over two samples or    *)
(* more (main.js 320) and a sampling rate above 0 (main.js 279); one       *)
(* sample is windowed without a quotient by the rectangular window alone.  *)
(***************************************************************************)
MaxSamples == 5

\* samples: -1 and 1
FFTSampleValues == {-BOne, BOne}
FFTRecords == UNION {[1..n -> FFTSampleValues] : n \in 1..MaxSamples}

\* samplingRate: 0.125, 1 and 3.875 Hz
FFTSamplingRates == {BOne \div 8, BOne, (31 * BOne) \div 8}

FFTOptions ==
    {[windowType |-> w, normalize |-> b] :
        w \in {<<>>, <<WindowHamming>>, <<WindowBlackman>>,
               <<WindowRectangular>>},
        b \in {<<>>, <<FALSE>>}}

NoTransform == StartTransform(<<>>, <<>>)

FFTInit ==
    /\ core \in {[pc |-> "called", data |-> x, samplingRate |-> f,
                  options |-> o, windowed |-> <<>>, padded |-> <<>>,
                  t |-> NoTransform, spectrum |-> <<>>, power |-> <<>>] :
                 x \in FFTRecords, f \in FFTSamplingRates, o \in FFTOptions}
    /\ Len(core.data) >= 2 \/ WindowTypeOf(core.options) = WindowRectangular
    /\ nm = NMOff /\ rs = RSOff /\ pg = PGOff /\ AppOff

\* line 131
FFTApplyWindow ==
    /\ core.pc = "called"
    /\ core' = [core EXCEPT
                  !.pc = "windowed",
                  !.windowed = applyWindow(core.data,
                                           WindowTypeOf(core.options))]
    /\ UNCHANGED <<nm, rs, pg, appVars>>

\* line 134
FFTZeroPad ==
    /\ core.pc = "windowed"
    /\ core' = [core EXCEPT !.pc = "padded",
                            !.padded = zeroPad(core.windowed)]
    /\ UNCHANGED <<nm, rs, pg, appVars>>

\* lines 135-142 and 70-72: real, imag and the call of transform
FFTTransform ==
    /\ core.pc = "padded"
    /\ core' = [core EXCEPT
                  !.pc = "transform",
                  !.t = StartTransform(core.padded,
                                       [i \in 1..Len(core.padded) |-> 0])]
    /\ UNCHANGED <<nm, rs, pg, appVars>>

\* lines 75-86
FFTBitReverse ==
    /\ core.pc = "transform"
    /\ core.t.pc = "reverse"
    /\ core' = [core EXCEPT !.t = BitReverseStep(core.t)]
    /\ UNCHANGED <<nm, rs, pg, appVars>>

\* lines 89-114
FFTButterfly ==
    /\ core.pc = "transform"
    /\ core.t.pc = "butterfly"
    /\ core' = [core EXCEPT !.t = ButterflyStep(core.t)]
    /\ UNCHANGED <<nm, rs, pg, appVars>>

\* lines 145-162
FFTSpectrum ==
    /\ core.pc = "transform"
    /\ core.t.pc = "done"
    /\ core' = [core EXCEPT
                  !.pc = "returned",
                  !.spectrum = <<SpectrumOf(core.t, core.samplingRate,
                                            NormalizeOf(core.options))>>]
    /\ UNCHANGED <<nm, rs, pg, appVars>>

\* lines 172-176: powerSpectrum(data, samplingRate, options)
FFTPowerSpectrum ==
    /\ core.pc = "returned"
    /\ core.power = <<>>
    /\ core' = [core EXCEPT
                  !.power = <<powerSpectrum(core.data, core.samplingRate,
                                            core.options)>>]
    /\ UNCHANGED <<nm, rs, pg, appVars>>

FFTNext ==
    \/ FFTApplyWindow \/ FFTZeroPad \/ FFTTransform \/ FFTBitReverse
    \/ FFTButterfly \/ FFTSpectrum \/ FFTPowerSpectrum

SpecFFT == FFTInit /\ [][FFTNext]_vars

(***************************************************************************)
(* C14                                                                     *)
(***************************************************************************)
IsPowerOfTwo(k) == \E e \in 0..k : k = 2 ^ e

\* zeroPad has returned
FFTPadded == core.pc \in {"padded", "transform", "returned"}

\* C14: of n >= 1 numbers zeroPad returns N numbers, N the smallest power
\* of two that is n or more: the n numbers in their places, then zeros; the
\* n numbers themselves when n is a power of two
C14_ZeroPad ==
    (FFTPadded /\ Len(core.windowed) >= 1) =>
        /\ IsPowerOfTwo(Len(core.padded))
        /\ Len(core.padded) >= Len(core.windowed)
        /\ Len(core.padded) < 2 * Len(core.windowed)
        /\ \A i \in 1..Len(core.padded) :
              core.padded[i] = IF i <= Len(core.windowed)
                               THEN core.windowed[i]
                               ELSE 0
        /\ IsPowerOfTwo(Len(core.windowed)) => core.padded = core.windowed

\* five numbers, the last not zero, padded to eight
C14_Witness ==
    /\ FFTPadded
    /\ Len(core.windowed) = 5 /\ Len(core.padded) = 8
    /\ core.padded[5] # 0 /\ core.padded[5] # core.padded[1]
    /\ core.padded[8] = 0

FFTReturned == core.pc = "returned" /\ Len(core.data) >= 2

\* C16: for n >= 2 samples padded to N, amplitudeSpectrum returns N/2 + 1
\* frequencies and as many amplitudes; frequency k is the number nearest to
\* k * samplingRate / N, so the first is 0, none is below the one before it
\* and the last is samplingRate / 2 exactly
C16_FrequencyAxis ==
    FFTReturned =>
        /\ Len(core.spectrum[1].frequencies) = (Len(core.padded) \div 2) + 1
        /\ Len(core.spectrum[1].amplitudes) = (Len(core.padded) \div 2) + 1
        /\ \A k \in 0..(Len(core.padded) \div 2) :
              core.spectrum[1].frequencies[k + 1]
                  = Fl(k * core.samplingRate, Len(core.padded))
        /\ core.spectrum[1].frequencies[1] = 0
        /\ \A k \in 1..(Len(core.padded) \div 2) :
              core.spectrum[1].frequencies[k]
                  < core.spectrum[1].frequencies[k + 1]
        /\ 2 * core.spectrum[1].frequencies[(Len(core.padded) \div 2) + 1]
              = core.samplingRate

\* eight points at 3.875 Hz: the frequency of bin 3 is rounded
C16_Witness ==
    /\ FFTReturned
    /\ Len(core.padded) = 8
    /\ Len(core.spectrum[1].frequencies) = 5
    /\ 8 * core.spectrum[1].frequencies[4] # 3 * core.samplingRate

(***************************************************************************)
(* C17                                                                     *)
(***************************************************************************)
\* C17: powerSpectrum returns the frequencies amplitudeSpectrum returns for
\* the same arguments, and each power is the amplitude of its bin times
\* itself
C17_PowerIsAmplitudeSquared ==
    (core.pc = "returned" /\ core.power # <<>>) =>
        /\ core.power[1].frequencies = core.spectrum[1].frequencies
        /\ Len(core.power[1].powers) = Len(core.spectrum[1].amplitudes)
        /\ \A i \in 1..Len(core.spectrum[1].amplitudes) :
              core.power[1].powers[i]
                  = BMul(core.spectrum[1].amplitudes[i],
                         core.spectrum[1].amplitudes[i])

\* a spectrum with an amplitude that is neither 0 nor 1, and its powers
C17_Witness ==
    /\ core.pc = "returned" /\ core.power # <<>>
    /\ \E i \in 1..Len(core.spectrum[1].amplitudes) :
          /\ core.spectrum[1].amplitudes[i] > 0
          /\ core.power[1].powers[i] # core.spectrum[1].amplitudes[i]
          /\ core.power[1].powers[i] > 0

(***************************************************************************)
(* FFT.transform called on two arrays of a power-of-two length, one loop   *)
(* iteration at a time (SpecTransform).  swaps lists the pairs (i, j) the  *)
(* iterations that passed the test of line 76 exchanged.                   *)
(***************************************************************************)
MaxLog2 == 3

\* the numbers 1 .. n in order
BRLabels(n) == [i \in 1..n |-> Num(i)]

\* real: 1 .. n, or a single 1 among zeros; imag: zeros, or -1 .. -n
BRReals(n) ==
    {BRLabels(n)} \cup {[i \in 1..n |-> IF i = p THEN BOne ELSE 0] : p \in 1..n}
BRImags(n) == {[i \in 1..n |-> 0], [i \in 1..n |-> -Num(i)]}

BRInit ==
    /\ core \in {[pc |-> "transform", real |-> re, imag |-> im,
                  t |-> StartTransform(re, im), swaps |-> <<>>] :
                 re \in UNION {BRReals(2 ^ e) : e \in 0..MaxLog2},
                 im \in UNION {BRImags(2 ^ e) : e \in 0..MaxLog2}}
    /\ Len(core.real) = Len(core.imag)
    /\ nm = NMOff /\ rs = RSOff /\ pg = PGOff /\ AppOff

\* lines 75-86: one iteration of the first loop
BRReverse ==
    /\ core.pc = "transform"
    /\ core.t.pc = "reverse"
    /\ core' = [core EXCEPT
                  !.t = BitReverseStep(core.t),
                  !.swaps = IF core.t.i < core.t.j
                            THEN Append(core.swaps, <<core.t.i, core.t.j>>)
                            ELSE core.swaps]
    /\ UNCHANGED <<nm, rs, pg, appVars>>

\* lines 99-108: one iteration of the innermost butterfly loop
BRButterfly ==
    /\ core.pc = "transform"
    /\ core.t.pc = "butterfly"
    /\ core' = [core EXCEPT !.t = ButterflyStep(core.t)]
    /\ UNCHANGED <<nm, rs, pg, appVars>>

\* lines 72 and 115: transform returns
BRReturn ==
    /\ core.pc = "transform"
    /\ core.t.pc = "done"
    /\ core' = [core EXCEPT !.pc = "returned"]
    /\ UNCHANGED <<nm, rs, pg, appVars>>

BRNext == BRReverse \/ BRButterfly \/ BRReturn

SpecTransform == BRInit /\ [][BRNext]_vars

(***************************************************************************)
(* C25                                                                     *)
(***************************************************************************)
\* the number whose binary representation in the given number of bits is
\* that of i reversed
RECURSIVE BitRev(_, _)
BitRev(i, bits) ==
    IF bits = 0 THEN 0
    ELSE (i % 2) * 2 ^ (bits - 1) + BitRev(i \div 2, bits - 1)

\* log2(N) for the arrays of the call
BRBits == CeilLog2(Len(core.real))

\* the first phase run from t to its end
RECURSIVE BitReversed(_)
BitReversed(t) == IF t.pc # "reverse" THEN t ELSE BitReversed(BitReverseStep(t))

\* the first phase has just ended: no butterfly has run yet
BRJustReversed ==
    /\ core.pc = "transform"
    /\ core.t.pc = "butterfly"
    /\ core.t.mmax = 1 /\ core.t.m = 0 /\ core.t.i = 0

\* C25: during the first phase j is i with its log2(N) bits reversed and
\* every exchange is of a pair i < j made once; when the phase ends the
\* element that was at i is at the reversed index, in real and in imag
\* alike, exactly the pairs with i below its reversed index were exchanged,
\* reversing is its own inverse, and the phase run again on the result
\* gives the arrays of the call back
C25_BitReversalPermutation ==
    core.pc = "transform" =>
        /\ core.t.pc = "reverse" => core.t.j = BitRev(core.t.i, BRBits)
        /\ \A k \in 1..Len(core.swaps) :
              /\ core.swaps[k][1] < core.swaps[k][2]
              /\ core.swaps[k][2] = BitRev(core.swaps[k][1], BRBits)
              /\ \A l \in 1..Len(core.swaps) :
                    k # l => core.swaps[k] # core.swaps[l]
        /\ BRJustReversed =>
              /\ \A i \in 0..(Len(core.real) - 1) :
                    /\ BitRev(i, BRBits) \in 0..(Len(core.real) - 1)
                    /\ BitRev(BitRev(i, BRBits), BRBits) = i
                    /\ core.t.real[BitRev(i, BRBits) + 1] = core.real[i + 1]
                    /\ core.t.imag[BitRev(i, BRBits) + 1] = core.imag[i + 1]
              /\ {core.swaps[k] : k \in 1..Len(core.swaps)}
                    = {<<i, BitRev(i, BRBits)>> :
                         i \in {x \in 0..(Len(core.real) - 1) :
                                  x < BitRev(x, BRBits)}}
              /\ BitReversed(StartTransform(core.t.real, core.t.imag)).real
                    = core.real
              /\ BitReversed(StartTransform(core.t.real, core.t.imag)).imag
                    = core.imag

\* the numbers 1 .. 8 and -1 .. -8 just after the first phase: 2 stands
\* where 5 stood, and two pairs were exchanged
C25_Witness ==
    /\ BRJustReversed
    /\ Len(core.real) = 8
    /\ core.real = BRLabels(8)
    /\ core.t.real = <<Num(1), Num(5), Num(3), Num(7),
                       Num(2), Num(6), Num(4), Num(8)>>
    /\ core.t.imag[2] = -Num(5)
    /\ core.swaps = << <<1, 4>>, <<3, 6>> >>

(***************************************************************************)
(* FFT.findPeakFrequency (js/fft.js), one bin at a time (SpecPeak).  The   *)
(* scan is [maxAmp, peakFreq, peakIndex]; maxAmp is a sequence of length 1 *)
(* with a number, or NegInfinity, the value -Infinity it starts from.  The *)
(* index is counted from 0 as in the source.                               *)
(***************************************************************************)
NegInfinity == <<>>

\* line 185: minFreq = 0.1 when the argument is absent
MinFreqOf(minFreq) == IF minFreq = <<>> THEN Literal(1, 10) ELSE minFreq[1]

\* lines 186-188
StartScan == [maxAmp |-> NegInfinity, peakFreq |-> 0, peakIndex |-> 0]

\* amplitudes[i] >= maxAmp
ExceedsOrEquals(amplitude, maxAmp) ==
    maxAmp = NegInfinity \/ amplitude >= maxAmp[1]

\* line 191: amplitudes[i] > maxAmp
Exceeds(amplitude, maxAmp) ==
    maxAmp = NegInfinity \/ amplitude > maxAmp[1]

\* lines 191-195: bin i with its frequency and amplitude
ScanBin(p, i, frequency, amplitude, minFreq) ==
    IF frequency >= minFreq /\ Exceeds(amplitude, p.maxAmp)
    THEN [maxAmp |-> <<amplitude>>, peakFreq |-> frequency, peakIndex |-> i]
    ELSE p

\* lines 198-202
PeakOf(p) ==
    [frequency |-> p.peakFreq, amplitude |-> p.maxAmp, index |-> p.peakIndex]

\* frequencies and amplitudes of the same length, each 0 .. MaxLen long
PKFrequencyValues == {0, BOne \div 16, BOne}
PKAmplitudeValues == {0, BOne, 2 * BOne}
PKSpectra ==
    UNION {[1..n -> PKFrequencyValues] \X [1..n -> PKAmplitudeValues] :
           n \in 0..MaxLen}

\* minFreq: absent, 0 and 1 Hz
PKMinFreqs == {<<>>, <<0>>, <<BOne>>}

PKInit ==
    /\ core \in {[pc |-> "scan", frequencies |-> s[1], amplitudes |-> s[2],
                  minFreq |-> f, i |-> 0, p |-> StartScan,
                  peak |-> PeakOf(StartScan)] :
                 s \in PKSpectra, f \in PKMinFreqs}
    /\ nm = NMOff /\ rs = RSOff /\ pg = PGOff /\ AppOff

\* lines 190-196: one iteration
PKScan ==
    /\ core.pc = "scan"
    /\ core.i < Len(core.frequencies)
    /\ core' = [core EXCEPT
                  !.p = ScanBin(core.p, core.i, core.frequencies[core.i + 1],
                                core.amplitudes[core.i + 1],
                                MinFreqOf(core.minFreq)),
                  !.i = core.i + 1]
    /\ UNCHANGED <<nm, rs, pg, appVars>>

\* lines 198-202
PKReturn ==
    /\ core.pc = "scan"
    /\ ~(core.i < Len(core.frequencies))
    /\ core' = [core EXCEPT !.pc = "returned", !.peak = PeakOf(core.p)]
    /\ UNCHANGED <<nm, rs, pg, appVars>>

PKNext == PKScan \/ PKReturn

SpecPeak == PKInit /\ [][PKNext]_vars

(***************************************************************************)
(* C18 and C19                                                             *)
(***************************************************************************)
\* the bins (counted from 1) whose frequency is minFreq or more
PKQualifying ==
    {k \in 1..Len(core.frequencies) :
        core.frequencies[k] >= MinFreqOf(core.minFreq)}

\* C18: when no bin has a frequency of minFreq or more, also when there is
\* no bin at all, the amplitude returned is not -Infinity and the index
\* returned is not that of a bin below minFreq
C18_NoPeakIsDefined ==
    (core.pc = "returned" /\ PKQualifying = {}) =>
        /\ core.peak.amplitude # NegInfinity
        /\ ~(core.peak.index + 1 \in 1..Len(core.frequencies))

\* C19: when a bin has a frequency of minFreq or more, the index returned
\* is that of the first bin among them whose amplitude is their largest,
\* and the frequency and amplitude returned are those of that bin
C19_PeakIsFirstLargest ==
    (core.pc = "returned" /\ PKQualifying # {}) =>
        /\ core.peak.index + 1 \in PKQualifying
        /\ \A k \in PKQualifying :
              /\ core.amplitudes[k] <= core.amplitudes[core.peak.index + 1]
              /\ core.amplitudes[k] = core.amplitudes[core.peak.index + 1]
                    => core.peak.index + 1 <= k
        /\ core.peak.frequency = core.frequencies[core.peak.index + 1]
        /\ core.peak.amplitude = <<core.amplitudes[core.peak.index + 1]>>

\* three bins: the first below minFreq with the largest amplitude, the
\* other two at or above minFreq with equal amplitudes; the second wins
C19_Witness ==
    /\ core.pc = "returned"
    /\ Len(core.frequencies) = 3
    /\ PKQualifying = {2, 3}
    /\ core.amplitudes[1] > core.amplitudes[2]
    /\ core.amplitudes[2] = core.amplitudes[3]
    /\ core.peak.index = 1

(***************************************************************************)
(* The operations as the caller's array sees them (SpecCalls).  The heap   *)
(* is the sequence of the arrays that exist; an array is known by its      *)
(* address, its place in the heap.  A call is [heap, returned]: the heap   *)
(* after the call and the addresses of the arrays in the value returned.   *)
(* An array literal, a spread, map() and new Array() put a new array at    *)
(* the end of the heap; sort() and transform() write the array they are    *)
(* given.  The samples are read on the grid of the module called.          *)
(***************************************************************************)
\* a new array a call returns
Fresh(h, array) == [heap |-> Append(h, array), returned |-> {Len(h) + 1}]

\* analysis.js 254-262: map() or [...acceleration]
HeapConvertToMps2(h, a, unit) ==
    Fresh(h, convertAccelerationToMps2(h[a], unit))

\* analysis.js 270-278: map() or [...acceleration]
HeapConvertFromMps2(h, a, unit) ==
    Fresh(h, convertAccelerationFromMps2(h[a], unit))

\* analysis.js 187-207: [...data] or data.map()
HeapRemoveBaseline(h, a) == Fresh(h, removeBaseline(h[a]))

\* analysis.js 226-234: integrated, made from the array at c
HeapTrapezoid(h, c, dt) == Fresh(h, Trapezoid(h[c], dt, Len(h[c])))

\* analysis.js 216-235: correctedData is a new array or data itself
HeapIntegrate(h, a, dt, detrend) ==
    IF Len(h[a]) < 2 THEN Fresh(h, <<0>>)
    ELSE IF detrend
    THEN HeapTrapezoid(HeapRemoveBaseline(h, a).heap, Len(h) + 1, dt)
    ELSE HeapTrapezoid(h, a, dt)

\* data.sort(): the array at a sorted in place
SortAt(h, a) == [h EXCEPT ![a] = Sorted(h[a])]

\* analysis.js 82-88 without the copy: data.sort((a, b) => a - b)
HeapMedianSortingData(h, a) == [heap |-> SortAt(h, a), returned |-> {}]

\* analysis.js 82-88: [...data].sort((a, b) => a - b); a number is returned
HeapMedian(h, a) ==
    [heap |-> SortAt(Append(h, h[a]), Len(h) + 1), returned |-> {}]

\* fft.js 36-62: new Array(n)
HeapApplyWindow(h, a, windowType) == Fresh(h, applyWindow(h[a], windowType))

\* fft.js 21-28: new Array(n).fill(0)
HeapZeroPad(h, a) == Fresh(h, zeroPad(h[a]))

\* fft.js 69-115: real and imag written in place
TransformAt(h, re, t) == [h EXCEPT ![re] = t.real, ![re + 1] = t.imag]
HeapTransform(h, re) ==
    TransformAt(h, re, RunTransform(StartTransform(h[re], h[re + 1])))

\* fft.js 138-139: real = [...processedData], imag = new Array(n).fill(0)
HeapRealImag(h, padded) ==
    h \o <<h[padded], [i \in 1..Len(h[padded]) |-> 0]>>

\* fft.js 145-162: frequencies = [] and amplitudes = [], filled by push()
HeapSpectrum(h, spectrum) ==
    [heap |-> h \o <<spectrum.frequencies, spectrum.amplitudes>>,
     returned |-> {Len(h) + 1, Len(h) + 2}]

\* fft.js 145-162, read from real at re and imag at re + 1
HeapSpectrumOfTransformed(h, re, samplingRate, normalize) ==
    HeapSpectrum(h, SpectrumOf([real |-> h[re], imag |-> h[re + 1]],
                               samplingRate, normalize))

\* fft.js 138-162, the padded array at the end of the heap
HeapSpectrumOfPadded(h, samplingRate, normalize) ==
    HeapSpectrumOfTransformed(
        HeapTransform(HeapRealImag(h, Len(h)), Len(h) + 1),
        Len(h) + 1, samplingRate, normalize)

\* fft.js 124-163
HeapAmplitudeSpectrum(h, a, samplingRate, options) ==
    HeapSpectrumOfPadded(
        HeapZeroPad(HeapApplyWindow(h, a, WindowTypeOf(options)).heap,
                    Len(h) + 1).heap,
        samplingRate, NormalizeOf(options))

\* fft.js 174-175: amplitudes.map(); c the call of amplitudeSpectrum
HeapPowers(c) ==
    [heap |-> Append(c.heap, PowersOf(c.heap[Len(c.heap)])),
     returned |-> {Len(c.heap) - 1, Len(c.heap) + 1}]

\* fft.js 172-176
HeapPowerSpectrum(h, a, samplingRate, options) ==
    HeapPowers(HeapAmplitudeSpectrum(h, a, samplingRate, options))

\* responseSpectrum.js 33-64: periods, dampings, groundAcceleration, and
\* the three arrays of every damping; nothing when the call throws
HeapResult(h, groundAcceleration, result) ==
    IF result.threw THEN [heap |-> h, returned |-> {}]
    ELSE [heap |-> h \o <<result.value.periods, result.value.dampings,
                          groundAcceleration>>
                     \o result.value.acceleration
                     \o result.value.velocity
                     \o result.value.displacement,
          returned |-> {Len(h) + 1, Len(h) + 2}
                       \cup {Len(h) + 3 + k :
                               k \in 1..(3 * Len(result.value.dampings))}]

\* responseSpectrum.js 24-65
HeapCompute(h, a, samplingRate, unit, config) ==
    HeapResult(h, RSConvertAccelerationToMps2(h[a], unit),
               compute(ArrayOf(h[a]), <<samplingRate>>, <<unit>>, <<config>>))

\* the caller's records: two samples or more (main.js 320)
CallRecords == UNION {[1..n -> {-BOne, 0, BOne}] : n \in 2..MaxLen}

\* the period grid and damping of the calls of compute
CallConfig ==
    [periodMin |-> 500, periodMax |-> One, periodDivisions |-> 1,
     dampings |-> <<50>>]

CallOptions ==
    {[windowType |-> w, normalize |-> <<>>] :
        w \in {<<>>, <<WindowRectangular>>}}

\* the caller's array is at address 1
CallInit ==
    /\ core \in {[pc |-> "idle", heap |-> <<x>>, returned |-> {},
                  original |-> x, last |-> ""] : x \in CallRecords}
    /\ nm = NMOff /\ rs = RSOff /\ pg = PGOff /\ AppOff

\* the caller keeps its array and drops what the call before returned
CallerHeap == <<core.heap[1]>>
Called(name, call) ==
    [core EXCEPT !.heap = call.heap, !.returned = call.returned,
                 !.last = name]

CallConvertToMps2 ==
    /\ \E u \in {UnitGal, UnitG, UnitMps2} :
          core' = Called("convertAccelerationToMps2",
                         HeapConvertToMps2(CallerHeap, 1, u))
    /\ UNCHANGED <<nm, rs, pg, appVars>>

CallConvertFromMps2 ==
    /\ \E u \in {UnitGal, UnitG, UnitMps2} :
          core' = Called("convertAccelerationFromMps2",
                         HeapConvertFromMps2(CallerHeap, 1, u))
    /\ UNCHANGED <<nm, rs, pg, appVars>>

CallRemoveBaseline ==
    /\ core' = Called("removeBaseline", HeapRemoveBaseline(CallerHeap, 1))
    /\ UNCHANGED <<nm, rs, pg, appVars>>

CallIntegrate ==
    /\ \E detrend \in BOOLEAN :
          core' = Called("integrate",
                         HeapIntegrate(CallerHeap, 1, BOne \div 4, detrend))
    /\ UNCHANGED <<nm, rs, pg, appVars>>

CallMedian ==
    /\ core' = Called("median", HeapMedian(CallerHeap, 1))
    /\ UNCHANGED <<nm, rs, pg, appVars>>

CallApplyWindow ==
    /\ \E w \in {WindowHanning, WindowHamming, WindowBlackman,
                 WindowRectangular} :
          core' = Called("applyWindow", HeapApplyWindow(CallerHeap, 1, w))
    /\ UNCHANGED <<nm, rs, pg, appVars>>

CallZeroPad ==
    /\ core' = Called("zeroPad", HeapZeroPad(CallerHeap, 1))
    /\ UNCHANGED <<nm, rs, pg, appVars>>

CallAmplitudeSpectrum ==
    /\ \E o \in CallOptions :
          core' = Called("amplitudeSpectrum",
                         HeapAmplitudeSpectrum(CallerHeap, 1, BOne, o))
    /\ UNCHANGED <<nm, rs, pg, appVars>>

CallPowerSpectrum ==
    /\ \E o \in CallOptions :
          core' = Called("powerSpectrum",
                         HeapPowerSpectrum(CallerHeap, 1, BOne, o))
    /\ UNCHANGED <<nm, rs, pg, appVars>>

CallCompute ==
    /\ \E u \in {UnitGal, UnitMps2} :
          core' = Called("compute",
                         HeapCompute(CallerHeap, 1, One, u, CallConfig))
    /\ UNCHANGED <<nm, rs, pg, appVars>>

CallNext ==
    \/ CallConvertToMps2 \/ CallConvertFromMps2 \/ CallRemoveBaseline
    \/ CallIntegrate \/ CallMedian \/ CallApplyWindow \/ CallZeroPad
    \/ CallAmplitudeSpectrum \/ CallPowerSpectrum \/ CallCompute

SpecCalls == CallInit /\ [][CallNext]_vars

(***************************************************************************)
(* C13                                                                     *)
(***************************************************************************)
\* C13: after any sequence of calls of the operations on the caller's
\* array, the array holds the samples it held at first, and every array in
\* the value the last call returned is one made during that call, not the
\* caller's
C13_InputNeverMutated ==
    core.pc = "idle" =>
        /\ core.heap[1] = core.original
        /\ \A a \in core.returned : a > 1 /\ a <= Len(core.heap)

\* a call of median on samples that are not in order: the copy (address 2)
\* is sorted, the caller's array is not
C13_Witness ==
    /\ core.pc = "idle"
    /\ core.last = "median"
    /\ Len(core.heap) = 2
    /\ core.heap[2] # core.heap[1]
    /\ core.heap[1] = core.original

(***************************************************************************)
(* WaveformChart.downsample (js/waveform.js), one bucket at a time         *)
(* (SpecDownsample).  Indices are counted from 0 as in the source; maxVal  *)
(* and minVal are sequences of length 1 with a number, or the empty        *)
(* sequence for the -Infinity and Infinity they start from.                *)
(***************************************************************************)
MaxPoints == 3

PosInfinity == <<>>

\* line 419: yData[j] < minVal
Below(value, minVal) == minVal = PosInfinity \/ value < minVal[1]

\* lines 415-422: the sample at j
ScanSample(b, j, value) ==
    [maxVal |-> IF Exceeds(value, b.maxVal) THEN <<value>> ELSE b.maxVal,
     maxIdx |-> IF Exceeds(value, b.maxVal) THEN j ELSE b.maxIdx,
     minVal |-> IF Below(value, b.minVal) THEN <<value>> ELSE b.minVal,
     minIdx |-> IF Below(value, b.minVal) THEN j ELSE b.minIdx]

\* lines 409-423: the bucket that starts at i, scanned up to j (not included)
RECURSIVE ScanBucket(_, _, _)
ScanBucket(yData, i, j) ==
    IF j <= i
    THEN [maxVal |-> NegInfinity, minVal |-> PosInfinity,
          maxIdx |-> i, minIdx |-> i]
    ELSE ScanSample(ScanBucket(yData, i, j - 1), j - 1, yData[j])

\* lines 426-432: the two points of a bucket, the earlier one first
PushBucket(out, xData, yData, b) ==
    IF b.minIdx < b.maxIdx
    THEN [labels |-> out.labels \o <<xData[b.minIdx + 1], xData[b.maxIdx + 1]>>,
          values |-> out.values \o <<yData[b.minIdx + 1], yData[b.maxIdx + 1]>>]
    ELSE [labels |-> out.labels \o <<xData[b.maxIdx + 1], xData[b.minIdx + 1]>>,
          values |-> out.values \o <<yData[b.maxIdx + 1], yData[b.minIdx + 1]>>]

\* line 408: Math.min(i + step, xData.length)
BucketEnd(i, step, n) == IF i + step < n THEN i + step ELSE n

\* line 401: Math.ceil(xData.length / maxPoints)
StepOf(n, maxPoints) == (n + maxPoints - 1) \div maxPoints

\* samples 0, 1 and 2 at the times 0, 1, 2, ...
DSRecords == UNION {[1..n -> 0..2] : n \in 0..MaxSamples}

DSInit ==
    /\ core \in {[pc |-> "called", xData |-> [i \in 1..Len(y) |-> i - 1],
                  yData |-> y, maxPoints |-> m, step |-> 0, i |-> 0,
                  out |-> [labels |-> <<>>, values |-> <<>>]] :
                 y \in DSRecords, m \in 1..MaxPoints}
    /\ nm = NMOff /\ rs = RSOff /\ pg = PGOff /\ AppOff

\* lines 394-403: the arrays themselves when they are short enough, or the
\* step and two empty arrays
DSEnter ==
    /\ core.pc = "called"
    /\ core' = IF Len(core.xData) <= core.maxPoints
               THEN [core EXCEPT
                       !.pc = "returned",
                       !.out = [labels |-> core.xData, values |-> core.yData]]
               ELSE [core EXCEPT
                       !.pc = "loop",
                       !.step = StepOf(Len(core.xData), core.maxPoints)]
    /\ UNCHANGED <<nm, rs, pg, appVars>>

\* lines 406-433: one iteration of the outer loop
DSBucket ==
    /\ core.pc = "loop"
    /\ core.i < Len(core.xData)
    /\ core' = [core EXCEPT
                  !.out = PushBucket(core.out, core.xData, core.yData,
                              ScanBucket(core.yData, core.i,
                                         BucketEnd(core.i, core.step,
                                                   Len(core.xData)))),
                  !.i = core.i + core.step]
    /\ UNCHANGED <<nm, rs, pg, appVars>>

\* line 435
DSReturn ==
    /\ core.pc = "loop"
    /\ ~(core.i < Len(core.xData))
    /\ core' = [core EXCEPT !.pc = "returned"]
    /\ UNCHANGED <<nm, rs, pg, appVars>>

DSNext == DSEnter \/ DSBucket \/ DSReturn

SpecDownsample == DSInit /\ [][DSNext]_vars

(***************************************************************************)
(* C30                                                                     *)
(***************************************************************************)
\* C30: downsample returns as many labels as values, and maxPoints of them
\* at most
C30_AtMostMaxPoints ==
    core.pc = "returned" =>
        /\ Len(core.out.labels) = Len(core.out.values)
        /\ Len(core.out.labels) <= core.maxPoints

(***************************************************************************)
(* js/main.js: file selection, runAnalysis and the response-spectrum       *)
(* worker it drives (Spec).  A step is one task of the page's event loop   *)
(* with the microtasks it leaves behind: a handler runs to its next await  *)
(* on a file read or on a worker, and the code after an await that is      *)
(* already settled runs in the same step.                                  *)
(***************************************************************************)
MaxRuns == 2

\* lines 349-354 with periodMin and periodMax exchanged
responseConfigReversed ==
    [periodMin |-> 10 * One, periodMax |-> 20, periodDivisions |-> 200,
     dampings |-> <<20, 30, 50>>]

\* lines 349-354
responseConfig ==
    [periodMin |-> 20, periodMax |-> 10 * One, periodDivisions |-> 200,
     dampings |-> <<20, 30, 50>>]

\* the files the user picks: name, whether FileReaderModule.loadFile
\* resolves, and the { data, metadata } it resolves with
FileWave ==
    [name |-> "wave.csv", loads |-> TRUE, data |-> <<One, -One>>,
     metadata |-> [isKnet |-> FALSE, samplingRate |-> <<>>]]
FileKnet ==
    [name |-> "knet.txt", loads |-> TRUE, data |-> <<0, One, -One>>,
     metadata |-> [isKnet |-> TRUE, samplingRate |-> <<2 * One>>]]
FileShort ==
    [name |-> "short.dat", loads |-> TRUE, data |-> <<One>>,
     metadata |-> [isKnet |-> FALSE, samplingRate |-> <<>>]]
FileUnreadable ==
    [name |-> "empty.csv", loads |-> FALSE, data |-> <<>>,
     metadata |-> [isKnet |-> FALSE, samplingRate |-> <<>>]]
FilePicture ==
    [name |-> "picture.png", loads |-> TRUE, data |-> <<>>,
     metadata |-> [isKnet |-> FALSE, samplingRate |-> <<>>]]
Files == {FileWave, FileKnet, FileShort, FileUnreadable, FilePicture}

\* fileReader.js lines 350-354: the extension is csv, txt or dat
isValidFileType(file) ==
    file.name \in {"wave.csv", "knet.txt", "short.dat", "empty.csv"}

\* the arguments the page can pass to ResponseSpectrum.compute: the wave
\* file at the rate and unit of the form, which are 1 Hz and gal until a
\* K-net file has set them to 2 Hz and cm/s2, and the K-net file
AppArguments ==
    {PostedMessage(ArrayOf(FileWave.data), <<One>>, <<UnitGal>>,
                   <<responseConfig>>),
     PostedMessage(ArrayOf(FileWave.data), <<One>>, <<UnitCmS2>>,
                   <<responseConfig>>),
     PostedMessage(ArrayOf(FileWave.data), <<2 * One>>, <<UnitCmS2>>,
                   <<responseConfig>>),
     PostedMessage(ArrayOf(FileKnet.data), <<2 * One>>, <<UnitCmS2>>,
                   <<responseConfig>>)}

\* ResponseSpectrum.compute on those arguments, computed once for each
ComputeTable ==
    [a \in AppArguments |->
        compute(a.acceleration, a.samplingRate, a.unit, a.config)]
AppCompute(a) == ComputeTable[a]

\* a number of the page (a multiple of 1 / One) as the floating-point
\* number the operations of js/analysis.js and js/fft.js compute on
ToBinary(x) == Fl(x * BOne, One)

\* analysis.js lines 287-293: integrate(accInMPS2, 1 / samplingRate, true)
accelerationToVelocity(acceleration, samplingRate, unit) ==
    integrate([i \in 1..Len(acceleration) |->
                  ToBinary(convertAccelerationToMps2(acceleration, unit)[i])],
              BDiv(BOne, ToBinary(samplingRate)), TRUE)

\* analysis.js lines 301-304
velocityToDisplacement(velocity, samplingRate) ==
    integrate(velocity, BDiv(BOne, ToBinary(samplingRate)), TRUE)

\* analysis.js lines 314-320, velocity the result of line 314
VelocityAndDisplacement(velocity, samplingRate) ==
    [velocity |-> velocity,
     displacement |-> velocityToDisplacement(velocity, samplingRate)]

\* analysis.js lines 313-321
computeVelocityAndDisplacement(acceleration, samplingRate, unit) ==
    VelocityAndDisplacement(
        accelerationToVelocity(acceleration, samplingRate, unit), samplingRate)

\* main.js lines 341 and 345: the two spectra, options left to the defaults
AppSpectrum(data, samplingRate) ==
    amplitudeSpectrum([i \in 1..Len(data) |-> ToBinary(data[i])],
                      ToBinary(samplingRate),
                      [windowType |-> <<>>, normalize |-> <<>>])
AppPowerSpectrum(data, samplingRate) ==
    powerSpectrum([i \in 1..Len(data) |-> ToBinary(data[i])],
                  ToBinary(samplingRate),
                  [windowType |-> <<>>, normalize |-> <<>>])

\* main.js lines 327-346: what runAnalysis stores beside the samples, the
\* rate and the unit before it computes the response spectrum
AnalysedOf(integrated, spectrumResult, powerResult) ==
    [velocity |-> integrated.velocity,
     displacement |-> integrated.displacement,
     frequencies |-> spectrumResult.frequencies,
     amplitudes |-> spectrumResult.amplitudes,
     powers |-> powerResult.powers]

Analysed(data, samplingRate, unit) ==
    AnalysedOf(computeVelocityAndDisplacement(data, samplingRate, unit),
               AppSpectrum(data, samplingRate),
               AppPowerSpectrum(data, samplingRate))

\* the same on the arguments the page can pass, computed once for each
AnalysedTable ==
    [a \in AppArguments |->
        Analysed(a.acceleration.items, a.samplingRate[1], a.unit[1])]
AppAnalysed(a) == AnalysedTable[a]

\* lines 57-70 (0 is null for responseWorker, <<>> for the other fields)
InitialState ==
    [currentFile |-> <<>>, data |-> <<>>, velocity |-> <<>>,
     displacement |-> <<>>, metadata |-> <<>>, frequencies |-> <<>>,
     amplitudes |-> <<>>, powers |-> <<>>,
     responseSpectrum |-> <<>>, responseWorker |-> 0,
     samplingRate |-> <<>>, unit |-> <<>>]

\* lines 324-346: the rate, the unit and the results of analysis.js and
\* fft.js stored for the arguments args
StoredAs(st, args, analysed) ==
    [st EXCEPT !.samplingRate = args.samplingRate,
               !.unit = args.unit,
               !.velocity = <<analysed.velocity>>,
               !.displacement = <<analysed.displacement>>,
               !.frequencies = <<analysed.frequencies>>,
               !.amplitudes = <<analysed.amplitudes>>,
               !.powers = <<analysed.powers>>]

Stored(st, args) == StoredAs(st, args, AppAnalysed(args))

\* a terminate() that leaves the event queued for the page in its queue
TerminateKeepingQueue(worker) == [worker EXCEPT !.live = FALSE, !.inbox = <<>>]

\* Worker.terminate(): the worker stops, the message it has not read and
\* the event it has queued for the page are dropped
Terminate(worker) ==
    [worker EXCEPT !.live = FALSE, !.inbox = <<>>, !.outbox = <<>>]

\* the tracked worker forgotten but left running
terminateResponseWorkerKeepingWorker(ws, tracked) == ws

\* lines 205-210: the workers after terminateResponseWorker()
terminateResponseWorker(ws, tracked) ==
    IF tracked # 0 THEN [ws EXCEPT ![tracked] = Terminate(ws[tracked])] ELSE ws

\* a run of runAnalysis that goes on to read its file (lines 274-289)
NewRun(file, samplingRate, unit) ==
    [pc |-> "load", file |-> file, samplingRate |-> samplingRate,
     unit |-> unit, offloaded |-> <<>>, failure |-> "", calls |-> <<>>,
     outcome |-> "", stored |-> <<>>]

\* lines 436-440, the finally block, on the page's state st, controls el
\* and workers ws, with rs1 the runs as the finished run leaves them
Finally(st, el, ws, rs1) ==
    /\ state' = [st EXCEPT !.responseWorker = 0]
    /\ elements' = [el EXCEPT !.analyzeBtn.disabled = FALSE]
    /\ workers' = terminateResponseWorker(ws, st.responseWorker)
    /\ runs' = rs1

Ended(run, outcome) == [run EXCEPT !.pc = "done", !.outcome = outcome]

\* lines 266-289: runAnalysis up to its first await
RunAnalysis(st, el) ==
    IF st.currentFile = <<>>
    THEN state' = st /\ elements' = el /\ UNCHANGED <<runs, workers>>
    ELSE IF el.samplingRate.value = <<>> \/ el.samplingRate.value[1] <= 0
    THEN Finally(st, [el EXCEPT !.analyzeBtn.disabled = TRUE], workers,
                 Append(runs, Ended(NewRun(st.currentFile[1], <<>>,
                                           el.dataUnit.value),
                                    "invalid sampling rate")))
    ELSE /\ state' = st
         /\ elements' = [el EXCEPT !.analyzeBtn.disabled = TRUE]
         /\ runs' = Append(runs, NewRun(st.currentFile[1],
                                        el.samplingRate.value[1],
                                        el.dataUnit.value))
         /\ UNCHANGED workers

\* lines 187-200
loadFile(file) ==
    IF ~isValidFileType(file)
    THEN UNCHANGED <<state, elements, runs, workers>>
    ELSE RunAnalysis([state EXCEPT !.currentFile = <<file>>],
                     [elements EXCEPT !.analyzeBtn.disabled = FALSE])

AppInit ==
    /\ state = InitialState
    /\ elements \in {[analyzeBtn |-> [disabled |-> d],
                      samplingRate |-> [value |-> <<One>>],
                      dataUnit |-> [value |-> UnitGal]] : d \in BOOLEAN}
    /\ runs = <<>>
    /\ workers = <<>>
    /\ hasWorker \in BOOLEAN
    /\ nm = NMOff /\ rs = RSOff /\ pg = PGOff /\ core = CoreOff

\* lines 145-150, the change event of the file input
HandleFileSelect ==
    /\ Len(runs) < MaxRuns
    /\ \E file \in Files : loadFile(file)
    /\ UNCHANGED <<nm, rs, pg, core, hasWorker>>

\* lines 173-182, a drop on the drop zone
HandleDrop ==
    /\ Len(runs) < MaxRuns
    /\ \E file \in Files : loadFile(file)
    /\ UNCHANGED <<nm, rs, pg, core, hasWorker>>

\* line 90: a click on the analyze button, which clicks only when enabled
ClickAnalyze ==
    /\ Len(runs) < MaxRuns
    /\ ~elements.analyzeBtn.disabled
    /\ RunAnalysis(state, elements)
    /\ UNCHANGED <<nm, rs, pg, core, hasWorker>>

\* the user types into the sampling-rate field: nothing, or 1
EditSamplingRate ==
    /\ \E v \in {<<>>, <<One>>} :
          /\ v # elements.samplingRate.value
          /\ elements' = [elements EXCEPT !.samplingRate.value = v]
    /\ UNCHANGED <<nm, rs, pg, core, state, runs, workers, hasWorker>>

\* one call of ResponseSpectrum.compute, as a run's record keeps it: who
\* called (the worker, computeResponseSpectrumAsync itself, or the catch
\* block of runAnalysis) and with what arguments
Call(by, args) == [by |-> by, args |-> args]

\* the retry made with the other unit
FallbackArgumentsOtherUnit(st, run) ==
    PostedMessage(ArrayOf(st.data[1]), <<run.samplingRate>>,
                  <<IF run.unit = UnitGal THEN UnitCmS2 ELSE UnitGal>>,
                  <<responseConfig>>)

\* lines 364-369: the arguments of the synchronous compute in the catch
\* block: state.data and the locals samplingRate, unit, responseConfig
FallbackArguments(st, run) ==
    PostedMessage(ArrayOf(st.data[1]), <<run.samplingRate>>, <<run.unit>>,
                  <<responseConfig>>)

MsgWorkerConstructor == "the Worker could not be constructed"
MsgScriptError == "the worker script failed"

\* lines 355-440 from the point where the promise of
\* computeResponseSpectrumAsync has settled (settled is Return(result) or
\* Throw(message), failure says how it failed): the result is stored, or
\* the catch block computes synchronously; then the charts, then finally
Continue(r, settled, failure, st, el, ws, rs0) ==
    LET run   == rs0[r]
        retry == FallbackArguments(st, run)
        final == IF settled.threw THEN AppCompute(retry) ELSE settled
        st1   == IF final.threw THEN st
                 ELSE [st EXCEPT !.responseSpectrum = <<final.value>>]
        run1  == [run EXCEPT
                    !.pc = "done",
                    !.failure = failure,
                    !.calls = IF settled.threw
                              THEN Append(run.calls, Call("catch", retry))
                              ELSE run.calls,
                    !.outcome = IF final.threw THEN final.error ELSE "shown",
                    !.stored = IF final.threw THEN <<>>
                               ELSE st1.responseSpectrum]
    IN  Finally(st1, el, ws, [rs0 EXCEPT ![r] = run1])

\* line 230: a worker just constructed, with the message of lines 254-259
\* on its way to it
NewWorker(r, args) ==
    [live |-> TRUE, run |-> r, inbox |-> <<args>>, outbox |-> <<>>,
     posted |-> FALSE, handled |-> FALSE]

\* lines 287-289 when the file cannot be read or parsed: catch, finally
LoadRejected ==
    /\ \E r \in 1..Len(runs) :
          /\ runs[r].pc = "load"
          /\ ~runs[r].file.loads
          /\ Finally(state, elements, workers,
                     [runs EXCEPT ![r] = Ended(@, "load error")])
    /\ UNCHANGED <<nm, rs, pg, core, hasWorker>>

\* lines 287-361 when the file is read: state.data, the K-net overrides,
\* the length check, and computeResponseSpectrumAsync (lines 220-261), which
\* computes in-process where there is no Worker, and otherwise terminates
\* the tracked worker and constructs a new one, or fails to construct it
LoadResolved ==
    /\ \E r \in 1..Len(runs) :
          /\ runs[r].pc = "load"
          /\ runs[r].file.loads
          /\ LET file == runs[r].file
                 knet == file.metadata.isKnet
                 samplingRate ==
                     IF knet /\ file.metadata.samplingRate # <<>>
                     THEN file.metadata.samplingRate[1]
                     ELSE runs[r].samplingRate
                 unit == IF knet THEN UnitCmS2 ELSE runs[r].unit
                 el1 == IF knet
                        THEN [elements EXCEPT
                                !.samplingRate.value = <<samplingRate>>,
                                !.dataUnit.value = unit]
                        ELSE elements
                 st1 == [state EXCEPT !.data = <<file.data>>,
                                      !.metadata = <<file.metadata>>]
                 args == PostedMessage(ArrayOf(file.data), <<samplingRate>>,
                                       <<unit>>, <<responseConfig>>)
                 st2 == Stored(st1, args)
                 run1 == [runs[r] EXCEPT !.samplingRate = samplingRate,
                                         !.unit = unit]
                 run2 == [run1 EXCEPT !.offloaded = <<args>>]
             IN  IF Len(file.data) < 2
                 THEN Finally(st1, el1, workers,
                              [runs EXCEPT ![r] = Ended(run1, "too short")])
                 ELSE IF ~hasWorker
                 THEN Continue(r, AppCompute(args),
                               IF AppCompute(args).threw THEN "inline" ELSE "",
                               st2, el1, workers,
                               [runs EXCEPT ![r] =
                                   [run2 EXCEPT !.calls =
                                       Append(@, Call("inline", args))]])
                 ELSE \E constructed \in BOOLEAN :
                        LET ws1 == terminateResponseWorker(workers,
                                                           st2.responseWorker)
                            st3 == [st2 EXCEPT !.responseWorker = 0]
                        IN  IF ~constructed
                            THEN Continue(r, Throw(MsgWorkerConstructor),
                                          "constructor", st3, el1, ws1,
                                          [runs EXCEPT ![r] = run2])
                            ELSE /\ state' = [st3 EXCEPT !.responseWorker =
                                                            Len(ws1) + 1]
                                 /\ elements' = el1
                                 /\ workers' = Append(ws1, NewWorker(r, args))
                                 /\ runs' = [runs EXCEPT ![r] =
                                               [run2 EXCEPT !.pc = "worker"]]
    /\ UNCHANGED <<nm, rs, pg, core, hasWorker>>

\* responseSpectrumWorker.js lines 7-23: the worker reads its message,
\* computes and posts its reply
WorkerRuns ==
    /\ \E w \in 1..Len(workers) :
          /\ workers[w].live
          /\ workers[w].inbox # <<>>
          /\ workers' = [workers EXCEPT
                           ![w].inbox = <<>>,
                           ![w].posted = TRUE,
                           ![w].outbox =
                               <<[type |-> "message", message |-> "",
                                  data |-> PostedReply(
                                      AppCompute(workers[w].inbox[1]))]>>]
          /\ runs' = [runs EXCEPT ![workers[w].run].calls =
                        Append(@, Call("worker", workers[w].inbox[1]))]
    /\ UNCHANGED <<nm, rs, pg, core, state, elements, hasWorker>>

\* responseSpectrumWorker.js line 5: the worker's script fails (it cannot
\* be fetched, or importScripts throws) and the page is sent an error event
WorkerFails ==
    /\ \E w \in 1..Len(workers), m \in {"", MsgScriptError} :
          /\ workers[w].live
          /\ workers[w].inbox # <<>>
          /\ workers' = [workers EXCEPT
                           ![w].inbox = <<>>,
                           ![w].outbox = <<[type |-> "error", message |-> m,
                                            data |-> <<>>]>>]
    /\ UNCHANGED <<nm, rs, pg, core, state, elements, runs, hasWorker>>

\* main.js lines 246-252: how worker.onerror settles the promise
SettleOnError(event) ==
    Throw(IF event.message # "" THEN event.message ELSE MsgWorkerError)

\* lines 233-237 and 246-250: the start of both handlers of worker w
Untracked(st, w) ==
    IF st.responseWorker = w THEN [st EXCEPT !.responseWorker = 0] ELSE st
Handled(ws, w) ==
    [ws EXCEPT ![w] = Terminate([@ EXCEPT !.outbox = <<>>, !.handled = TRUE])]

\* lines 233-244, worker.onmessage, and the run that awaited the promise
MainOnMessage ==
    /\ \E w \in 1..Len(workers) :
          /\ workers[w].outbox # <<>>
          /\ workers[w].outbox[1].type = "message"
          /\ LET settled == SettleOnMessage(workers[w].outbox[1])
             IN  Continue(workers[w].run, settled,
                          IF settled.threw THEN "reply" ELSE "",
                          Untracked(state, w), elements, Handled(workers, w),
                          runs)
    /\ UNCHANGED <<nm, rs, pg, core, hasWorker>>

\* lines 246-252, worker.onerror, and the run that awaited the promise
MainOnError ==
    /\ \E w \in 1..Len(workers) :
          /\ workers[w].outbox # <<>>
          /\ workers[w].outbox[1].type = "error"
          /\ Continue(workers[w].run, SettleOnError(workers[w].outbox[1]),
                      "error", Untracked(state, w), elements,
                      Handled(workers, w), runs)
    /\ UNCHANGED <<nm, rs, pg, core, hasWorker>>

Next ==
    \/ HandleFileSelect
    \/ HandleDrop
    \/ ClickAnalyze
    \/ EditSamplingRate
    \/ LoadRejected
    \/ LoadResolved
    \/ WorkerRuns
    \/ WorkerFails
    \/ MainOnMessage
    \/ MainOnError

Spec == AppInit /\ [][Next]_vars

(***************************************************************************)
(* C1, C2, C3 (Spec)                                                       *)
(***************************************************************************)
WorkerIds == 1..Len(workers)
LiveWorkers == {w \in WorkerIds : workers[w].live}

\* C1, in every state: at most one worker is live, a tracked worker is
\* live, and a live worker is the tracked one
C1_OneLiveTrackedWorker ==
    /\ Cardinality(LiveWorkers) <= 1
    /\ state.responseWorker # 0 => state.responseWorker \in LiveWorkers
    /\ \A w \in LiveWorkers : state.responseWorker = w

\* C1, step by step: when a worker is constructed, every worker there was
\* before is terminated
C1_TerminatesBeforeCreating ==
    [][Len(workers') > Len(workers) =>
          \A w \in WorkerIds : ~workers'[w].live]_vars

\* C1: at most one response-spectrum worker is live, state.responseWorker
\* is null or that worker, and the tracked worker is terminated before a new
\* one is constructed
C1_AtMostOneWorker == [](C1_OneLiveTrackedWorker) /\ C1_TerminatesBeforeCreating

\* a second worker is live and tracked, and the first was terminated while
\* its run was still awaiting it
C1_Witness ==
    /\ Len(workers) = 2
    /\ workers[2].live /\ state.responseWorker = 2
    /\ ~workers[1].live /\ ~workers[1].handled
    /\ runs[workers[1].run].pc = "worker"

\* the calls of compute a run made from the catch block of runAnalysis
CatchCalls(run) == SelectSeq(run.calls, LAMBDA c : c.by = "catch")

TornDown(w) == ~workers[w].live /\ ~workers[w].handled

\* C3, in every state: the run that awaited a torn-down worker has stored
\* nothing and has not resumed
C3_TornDownNeverStores ==
    \A w \in WorkerIds :
        TornDown(w) =>
            /\ runs[workers[w].run].pc = "worker"
            /\ runs[workers[w].run].stored = <<>>

\* C3, step by step: once a worker is terminated the page handles no
\* message of it and the run that awaited it stays as it is
C3_TornDownStaysSilent ==
    [][\A w \in WorkerIds :
          ~workers[w].live =>
              /\ workers'[w].handled = workers[w].handled
              /\ runs'[workers[w].run] = runs[workers[w].run]]_vars

SpecFair ==
    /\ Spec
    /\ WF_vars(LoadRejected)
    /\ WF_vars(LoadResolved)
    /\ WF_vars(WorkerRuns \/ WorkerFails)
    /\ WF_vars(MainOnMessage)
    /\ WF_vars(MainOnError)

(***************************************************************************)
(* C26 (SpecFair)                                                          *)
(***************************************************************************)
\* C26: every invocation of runAnalysis that has started reaches the end of
\* its finally block, also one whose worker another invocation terminated
C26_EveryRunFinishes ==
    \A r \in 1..MaxRuns :
        [](Len(runs) >= r => <>(Len(runs) >= r /\ runs[r].pc = "done"))

(***************************************************************************)
(* C27, C28, C29 (Spec)                                                    *)
(***************************************************************************)
\* no file read is pending, no worker has a message to read and no event is
\* queued for the page
Quiescent ==
    /\ \A r \in 1..Len(runs) : runs[r].pc # "load"
    /\ \A w \in 1..Len(workers) :
          workers[w].inbox = <<>> /\ workers[w].outbox = <<>>

\* C27: when nothing is pending and the invocation started last read a file
\* of two samples or more, state.currentFile is its file and state.data,
\* state.samplingRate, state.unit and state.responseSpectrum are its
\* samples, rate, unit and spectrum
C27_LastStartedWins ==
    (Quiescent /\ Len(runs) >= 2 /\ runs[Len(runs)].offloaded # <<>>) =>
        /\ state.currentFile = <<runs[Len(runs)].file>>
        /\ state.data = <<runs[Len(runs)].file.data>>
        /\ state.samplingRate = <<runs[Len(runs)].samplingRate>>
        /\ state.unit = <<runs[Len(runs)].unit>>
        /\ state.responseSpectrum
              = <<AppCompute(runs[Len(runs)].offloaded[1]).value>>

\* no invocation of runAnalysis is in progress
Idle == \A r \in 1..Len(runs) : runs[r].pc = "done"

\* nothing is stored
AllUnset ==
    /\ state.data = <<>> /\ state.velocity = <<>>
    /\ state.displacement = <<>> /\ state.frequencies = <<>>
    /\ state.amplitudes = <<>> /\ state.powers = <<>>
    /\ state.responseSpectrum = <<>>
    /\ state.samplingRate = <<>> /\ state.unit = <<>>

\* what is stored is what one invocation computes from the arguments a
DerivedFrom(a) ==
    /\ state.data = <<a.acceleration.items>>
    /\ state.samplingRate = a.samplingRate
    /\ state.unit = a.unit
    /\ state.velocity = <<AppAnalysed(a).velocity>>
    /\ state.displacement = <<AppAnalysed(a).displacement>>
    /\ state.frequencies = <<AppAnalysed(a).frequencies>>
    /\ state.amplitudes = <<AppAnalysed(a).amplitudes>>
    /\ state.powers = <<AppAnalysed(a).powers>>
    /\ state.responseSpectrum = <<AppCompute(a).value>>

\* C28: while no invocation is in progress the stored data, velocity,
\* displacement, frequencies, amplitudes, powers, responseSpectrum,
\* samplingRate and unit are all unset or all of one invocation
C28_StoredStateConsistent ==
    Idle => (AllUnset \/ \E a \in AppArguments : DerivedFrom(a))

\* the arguments of every call of ResponseSpectrum.compute made so far and
\* of every message on its way to a worker
ComputeArguments ==
    UNION {{runs[r].calls[k].args : k \in 1..Len(runs[r].calls)} :
           r \in 1..Len(runs)}
    \cup UNION {{workers[w].inbox[k] : k \in 1..Len(workers[w].inbox)} :
                w \in 1..Len(workers)}

====
